---------------------------- MODULE Spec2Model ----------------------------
(***************************************************************************)
(* Model of the mutual-fund allocation engine and portfolio rebalancer of  *)
(* asset_allocation_engine.py.                                             *)
(*                                                                         *)
(* The engine and the rebalancer are pure functions, so every function is  *)
(* an operator and the state is the last call made: which function (op),   *)
(* its arguments (args), what it returned (ret) and what it raised (exc).  *)
(* What outlives a call is the clock that stamps the plans (now), the       *)
(* engine with the strategy tables it holds (engine) and, for one engine   *)
(* called again and again, the create_plan calls it served (plans).        *)
(*                                                                         *)
(* Numbers.  The code computes in binary floating point; the model         *)
(* computes over exact fixed-point integers:                               *)
(*   mp     thousandths of a percent (100% = 100000): percentages that     *)
(*          are inputs or unrounded (custom_equity_percentage, equity_pct, *)
(*          debt_pct, drift_threshold)                                     *)
(*   bp     hundredths of a percent (100% = 10000): percentages after      *)
(*          round(x, 2)                                                    *)
(*   rupees whole currency units: money inputs and holding values          *)
(*   paise  hundredths of a rupee: amounts after round(x, 2)               *)
(* round(x, 2) is modelled by what it does: the nearest hundredth.  A      *)
(* value that lies exactly half-way between two hundredths (0.015) has in  *)
(* general no exact binary representation, and Python rounds the float     *)
(* that stands for it to either neighbour (round(0.015, 2) = 0.01,         *)
(* round(0.005, 2) = 0.01): round is therefore set-valued, both            *)
(* neighbours on a tie, and every operator that rounds returns the set of  *)
(* results the code can produce.                                           *)
(***************************************************************************)
EXTENDS Integers, Sequences, FiniteSets, TLC

VARIABLES op, args, ret, exc, now, plans, engine, session_state, screen

vars == <<op, args, ret, exc, now, plans, engine, session_state, screen>>

\* Python's None for string-valued optionals (risk_profile, equity_strategy)
None == "None"

\* Optional[float]: <<>> is None, <<v>> is the value v
NoValue == <<>>
Some(v) == <<v>>

\* no exception raised
NoExc == <<>>

Max(a, b) == IF a >= b THEN a ELSE b
Min(a, b) == IF a <= b THEN a ELSE b
Abs(a) == IF a >= 0 THEN a ELSE -a

\* units per percent: round(x, 2) keeps hundredths (bp); the unrounded
\* percentages carry one more decimal (mp)
BP == 100
MP == 10 * BP

(***************************************************************************)
(* round(num/den): the integers nearest to num/den (den > 0); two of them  *)
(* on a tie.  round(x, 2) of a value x given in hundredths.                *)
(***************************************************************************)
round(num, den) ==
    LET q == num \div den
        r == num % den
    IN  IF 2 * r < den THEN {q}
        ELSE IF 2 * r > den THEN {q + 1}
        ELSE {q, q + 1}

\* every map that takes, for each key of F, one element of the set F[key]
RECURSIVE MapChoices(_)
MapChoices(F) ==
    IF DOMAIN F = {} THEN {F}
    ELSE LET k == CHOOSE x \in DOMAIN F : TRUE
             rest == [j \in DOMAIN F \ {k} |-> F[j]]
         IN  {[j \in DOMAIN F |-> IF j = k THEN v ELSE g[j]] :
                  v \in F[k], g \in MapChoices(rest)}

\* {**a, **b}: the keys of both, b's value where both have the key
Merge(a, b) ==
    [k \in DOMAIN a \cup DOMAIN b |-> IF k \in DOMAIN b THEN b[k] ELSE a[k]]

(***************************************************************************)
(* FinancialGoal                                                           *)
(***************************************************************************)
FinancialGoal(name, target_amount, years_to_goal, priority) ==
    [name |-> name,
     target_amount |-> target_amount,
     years_to_goal |-> years_to_goal,
     priority |-> priority,
     monthly_allocation |-> 0]

timeframe_exclusive(self) ==
    IF self.years_to_goal < 3 THEN "short_term"
    ELSE IF self.years_to_goal < 7 THEN "medium_term"
    ELSE "long_term"

\* the property FinancialGoal.timeframe
timeframe(self) ==
    IF self.years_to_goal <= 3 THEN "short_term"
    ELSE IF self.years_to_goal <= 7 THEN "medium_term"
    ELSE "long_term"

(***************************************************************************)
(* UserProfile                                                             *)
(***************************************************************************)
\* the dataclass: age, monthly income / investment / lump sum (rupees), risk
\* profile (a tag or None), the two flags, the custom equity percentage
\* (Optional, mp) and the goals (no engine function reads them)
UserProfile(age, income, investment, lump_sum, risk, emergency, insurance, custom) ==
    [age |-> age,
     monthly_income |-> income,
     monthly_investment |-> investment,
     lump_sum_investment |-> lump_sum,
     risk_profile |-> risk,
     has_emergency_fund |-> emergency,
     has_adequate_insurance |-> insurance,
     custom_equity_percentage |-> custom,
     goals |-> <<>>]

ErrAge == "Age must be between 18 and 100"
ErrIncome == "Monthly income cannot be negative"
ErrInvestment == "Monthly investment cannot be negative"
ErrExceeds == "Monthly investment cannot exceed monthly income"
ErrLumpsum == "Lumpsum investment cannot be negative"
ErrCustom == "Custom equity percentage must be between 0 and 100"

\* errors.append(e) under the condition c
AppendIf(errors, c, e) == IF c THEN Append(errors, e) ELSE errors

validate_stops_at_first(self) ==
    LET e == IF self.age < 18 \/ self.age > 100 THEN <<ErrAge>>
             ELSE IF self.monthly_income < 0 THEN <<ErrIncome>>
             ELSE IF self.monthly_investment < 0 THEN <<ErrInvestment>>
             ELSE IF self.monthly_investment > self.monthly_income THEN <<ErrExceeds>>
             ELSE IF self.lump_sum_investment < 0 THEN <<ErrLumpsum>>
             ELSE IF /\ self.custom_equity_percentage # NoValue
                     /\ \/ self.custom_equity_percentage[1] < 0
                        \/ self.custom_equity_percentage[1] > 100 * MP
                  THEN <<ErrCustom>>
             ELSE <<>>
    IN  <<Len(e) = 0, e>>

\* UserProfile.validate: (is_valid, errors)
validate(self) ==
    LET e1 == AppendIf(<<>>, self.age < 18 \/ self.age > 100, ErrAge)
        e2 == AppendIf(e1, self.monthly_income < 0, ErrIncome)
        e3 == AppendIf(e2, self.monthly_investment < 0, ErrInvestment)
        e4 == AppendIf(e3, self.monthly_investment > self.monthly_income, ErrExceeds)
        e5 == AppendIf(e4, self.lump_sum_investment < 0, ErrLumpsum)
        e6 == IF self.custom_equity_percentage # NoValue
              THEN AppendIf(e5, \/ self.custom_equity_percentage[1] < 0
                                \/ self.custom_equity_percentage[1] > 100 * MP,
                            ErrCustom)
              ELSE e5
    IN  <<Len(e6) = 0, e6>>

(***************************************************************************)
(* Strategy tables                                                         *)
(***************************************************************************)
equity_templates_short ==
    [index_core |-> [index |-> 100],
     market_weighted |-> [largecap |-> 70, midcap |-> 20, smallcap |-> 10],
     balanced_growth |-> [largecap |-> 45, midcap |-> 30, smallcap |-> 20],
     aggressive_growth |-> [largecap |-> 35, midcap |-> 35, smallcap |-> 30]]

\* the class with the tables it is defined with
AssetAllocationEngine ==
    [equity_templates |->
        [index_core |-> [index |-> 100],
         market_weighted |-> [largecap |-> 70, midcap |-> 20, smallcap |-> 10],
         balanced_growth |-> [largecap |-> 45, midcap |-> 30, smallcap |-> 25],
         aggressive_growth |-> [largecap |-> 35, midcap |-> 35, smallcap |-> 30]],
     debt_templates |-> [long_term |-> [FD |-> 100]]]

\* self.equity_templates, self.debt_templates: the tables as the engine
\* holds them now
equity_templates == engine.equity_templates

debt_templates_index_keyed == [long_term |-> [index |-> 100]]

debt_templates == engine.debt_templates

equity_splits == [aggressive |-> 85, moderate |-> 65, conservative |-> 45]

\* get_equity_allocation_from_risk_profile: a set holding the percentage
\* (mp), empty when the lookup raises KeyError
get_equity_allocation_from_risk_profile(risk_profile) ==
    IF risk_profile \in DOMAIN equity_splits
    THEN {equity_splits[risk_profile] * MP}
    ELSE {}

get_risk_profile_from_age_inclusive(age) ==
    IF age <= 35 THEN "aggressive"
    ELSE IF age <= 55 THEN "moderate"
    ELSE "conservative"

get_risk_profile_from_age(age) ==
    IF age < 35 THEN "aggressive"
    ELSE IF age < 55 THEN "moderate"
    ELSE "conservative"

get_age_based_strategy_under_30(age) ==
    IF age < 30 THEN "aggressive_growth"
    ELSE IF age < 50 THEN "balanced_growth"
    ELSE "market_weighted"

get_age_based_strategy(age) ==
    IF age < 35 THEN "aggressive_growth"
    ELSE IF age < 50 THEN "balanced_growth"
    ELSE "market_weighted"

(***************************************************************************)
(* AssetAllocationEngine.calculate_equity_debt_split: the set holding      *)
(* (equity_pct, debt_pct) in mp, empty when the risk-profile lookup raises *)
(* KeyError.  `if profile.risk_profile:` is false for None.                *)
(***************************************************************************)
split_ignores_custom(profile) ==
    IF profile.risk_profile # None
    THEN {<<e, 100 * MP - e>> :
              e \in get_equity_allocation_from_risk_profile(profile.risk_profile)}
    ELSE LET equity_pct == Max(20, Min(80, 100 - profile.age)) * MP
         IN  {<<equity_pct, 100 * MP - equity_pct>>}

split_unclamped_age(profile) ==
    IF profile.custom_equity_percentage # NoValue
    THEN LET equity_pct == Max(0, Min(100 * MP, profile.custom_equity_percentage[1]))
         IN  {<<equity_pct, 100 * MP - equity_pct>>}
    ELSE IF profile.risk_profile # None
    THEN {<<e, 100 * MP - e>> :
              e \in get_equity_allocation_from_risk_profile(profile.risk_profile)}
    ELSE LET equity_pct == (100 - profile.age) * MP
         IN  {<<equity_pct, 100 * MP - equity_pct>>}

split_clamped_to_90(profile) ==
    IF profile.custom_equity_percentage # NoValue
    THEN LET equity_pct == Max(0, Min(100 * MP, profile.custom_equity_percentage[1]))
         IN  {<<equity_pct, 100 * MP - equity_pct>>}
    ELSE IF profile.risk_profile # None
    THEN {<<e, 100 * MP - e>> :
              e \in get_equity_allocation_from_risk_profile(profile.risk_profile)}
    ELSE LET equity_pct == Max(20, Min(90, 100 - profile.age)) * MP
         IN  {<<equity_pct, 100 * MP - equity_pct>>}

calculate_equity_debt_split(profile) ==
    IF profile.custom_equity_percentage # NoValue
    THEN LET equity_pct == Max(0, Min(100 * MP, profile.custom_equity_percentage[1]))
         IN  {<<equity_pct, 100 * MP - equity_pct>>}
    ELSE IF profile.risk_profile # None
    THEN {<<e, 100 * MP - e>> :
              e \in get_equity_allocation_from_risk_profile(profile.risk_profile)}
    ELSE LET equity_pct == Max(20, Min(80, 100 - profile.age)) * MP
             debt_pct == 100 * MP - equity_pct
         IN  {<<equity_pct, debt_pct>>}

(***************************************************************************)
(* FundAllocation and the allocation functions.  percentage is in bp,      *)
(* amount in paise.                                                        *)
(***************************************************************************)
FundAllocation(category, subcategory, percentage) ==
    [category |-> category,
     subcategory |-> subcategory,
     percentage |-> percentage,
     amount |-> 0,
     recommended_funds |-> <<>>]

\* fund_type.title().replace("_", " ")
Title(fund_type) ==
    CASE fund_type = "index" -> "Index"
      [] fund_type = "largecap" -> "Largecap"
      [] fund_type = "midcap" -> "Midcap"
      [] fund_type = "smallcap" -> "Smallcap"
      [] fund_type = "FD" -> "Fd"

ClampSector_upper_only(sector_allocation) == Min(15, sector_allocation)

ClampSector(sector_allocation) == Min(15, Max(0, sector_allocation))

BasePct_ignores_sector(international_pct, sector_pct) == 100 - international_pct

BasePct_ignores_international(international_pct, sector_pct) == 100 - sector_pct

\* base_pct: the share of the equity sleeve left to the template
BasePct(international_pct, sector_pct) == 100 - international_pct - sector_pct

(***************************************************************************)
(* allocate_equity(equity_pct in mp, strategy, add_international,          *)
(* sector_allocation in whole percent): the maps fund -> FundAllocation    *)
(* the call can return; empty when equity_templates[strategy] raises       *)
(* KeyError.                                                               *)
(***************************************************************************)
allocate_equity(equity_pct, strategy, add_international, sector_allocation) ==
    IF strategy \notin DOMAIN equity_templates THEN {}
    ELSE
    LET template == equity_templates[strategy]
        international_pct == IF add_international THEN 10 ELSE 0
        sector_pct == ClampSector(sector_allocation)
        base_pct == BasePct(international_pct, sector_pct)
        base == [fund_type \in DOMAIN template |->
                    {FundAllocation("Equity", Title(fund_type), p) :
                        p \in round(template[fund_type] * equity_pct * base_pct,
                                    100 * 100 * (MP \div BP))}]
        international ==
            IF add_international
            THEN [f \in {"international"} |->
                    {FundAllocation("Equity", "International Equity", p) :
                        p \in round(equity_pct * international_pct, 100 * (MP \div BP))}]
            ELSE <<>>
        sector ==
            IF sector_pct > 0
            THEN [f \in {"sector"} |->
                    {FundAllocation("Equity", "Sector/Thematic", p) :
                        p \in round(equity_pct * sector_pct, 100 * (MP \div BP))}]
            ELSE <<>>
    IN  MapChoices(Merge(Merge(base, international), sector))

\* allocate_debt(debt_pct in mp, strategy): empty when debt_templates[strategy]
\* raises KeyError
allocate_debt(debt_pct, strategy) ==
    IF strategy \notin DOMAIN debt_templates THEN {}
    ELSE
    LET template == debt_templates[strategy]
    IN  MapChoices([fund_type \in DOMAIN template |->
                      {FundAllocation("Debt", Title(fund_type), p) :
                          p \in round(template[fund_type] * debt_pct,
                                      100 * (MP \div BP))}])

(***************************************************************************)
(* calculate_fund_amounts(allocations, total_amount in rupees): the pairs  *)
(* (allocations with the amount fields written, breakdown) the call can    *)
(* leave.  round(amount, 2) is evaluated twice on the same float, so the   *)
(* row's amount and the breakdown entry agree.                             *)
(***************************************************************************)
calculate_fund_amounts_accumulates(allocations, total_amount) ==
    {<<[k \in DOMAIN allocations |-> [allocations[k] EXCEPT !.amount = breakdown[k]]],
       breakdown>> :
        breakdown \in MapChoices([k \in DOMAIN allocations |->
                          {allocations[k].amount + a :
                              a \in round(allocations[k].percentage * total_amount, 100)}])}

calculate_fund_amounts_keeps_first(allocations, total_amount) ==
    {<<[k \in DOMAIN allocations |->
            [allocations[k] EXCEPT !.amount = IF @ # 0 THEN @ ELSE breakdown[k]]],
       breakdown>> :
        breakdown \in MapChoices([k \in DOMAIN allocations |->
                          round(allocations[k].percentage * total_amount, 100)])}

calculate_fund_amounts(allocations, total_amount) ==
    {<<[k \in DOMAIN allocations |-> [allocations[k] EXCEPT !.amount = breakdown[k]]],
       breakdown>> :
        breakdown \in MapChoices([k \in DOMAIN allocations |->
                          round(allocations[k].percentage * total_amount, 100)])}

\* the rows with their percentage in mp instead of bp
InMP(allocations) ==
    [k \in DOMAIN allocations |->
        [allocations[k] EXCEPT !.percentage = @ * (MP \div BP)]]

set_rebalancing_triggers_unbounded(allocations, drift_threshold) ==
    MapChoices([k \in DOMAIN allocations |->
        LET target == allocations[k].percentage
            lower_trigger == target - drift_threshold
            upper_trigger == target + drift_threshold
        IN  round(lower_trigger, MP \div BP) \X round(upper_trigger, MP \div BP)])

\* set_rebalancing_triggers(allocations, drift_threshold in mp): the maps
\* fund -> (lower, upper) in bp.  The rows' percentage is taken as the
\* caller gives it, so in mp here: a row need not come from the engine.
set_rebalancing_triggers(allocations, drift_threshold) ==
    MapChoices([k \in DOMAIN allocations |->
        LET target == allocations[k].percentage
            lower_trigger == Max(0, target - drift_threshold)
            upper_trigger == Min(100 * MP, target + drift_threshold)
        IN  round(lower_trigger, MP \div BP) \X round(upper_trigger, MP \div BP)])

WarnEmergencyFund == "CRITICAL: Build 6 months of emergency fund"
WarnInsurance == "IMPORTANT: Ensure adequate term life insurance"
WarnHighEquity == "Very high equity allocation (>80%)"
WarnAge == "At age 60+, consider reducing equity exposure"
WarnLowInvestment == "Consider increasing monthly investment"
WarnHighRatio == "Investing >50% of monthly income is aggressive"

\* the warnings list kept on the engine and appended to by every call
generate_warnings_accumulates(profile, equity_pct) ==
    LET kept == IF Len(plans) > 0 /\ plans[Len(plans)].ret # <<>>
                THEN plans[Len(plans)].ret[1].warnings
                ELSE <<>>
        w1 == AppendIf(kept, ~profile.has_emergency_fund /\ equity_pct > 50 * MP,
                       WarnEmergencyFund)
        w2 == AppendIf(w1, ~profile.has_adequate_insurance, WarnInsurance)
        w3 == AppendIf(w2, equity_pct > 80 * MP, WarnHighEquity)
        w4 == AppendIf(w3, profile.age > 60 /\ equity_pct > 50 * MP, WarnAge)
        w5 == AppendIf(w4, profile.monthly_investment < 5000, WarnLowInvestment)
        ratio_over_50 == /\ profile.monthly_income > 0
                         /\ profile.monthly_investment * 100 > 50 * profile.monthly_income
    IN  AppendIf(w5, ratio_over_50, WarnHighRatio)

generate_warnings_inclusive(profile, equity_pct) ==
    LET w1 == AppendIf(<<>>, ~profile.has_emergency_fund /\ equity_pct >= 50 * MP,
                       WarnEmergencyFund)
        w2 == AppendIf(w1, ~profile.has_adequate_insurance, WarnInsurance)
        w3 == AppendIf(w2, equity_pct >= 80 * MP, WarnHighEquity)
        w4 == AppendIf(w3, profile.age >= 60 /\ equity_pct >= 50 * MP, WarnAge)
        w5 == AppendIf(w4, profile.monthly_investment <= 5000, WarnLowInvestment)
        ratio_over_50 == /\ profile.monthly_income > 0
                         /\ profile.monthly_investment * 100 >= 50 * profile.monthly_income
    IN  AppendIf(w5, ratio_over_50, WarnHighRatio)

\* generate_warnings(profile, equity_pct in mp)
generate_warnings(profile, equity_pct) ==
    LET w1 == AppendIf(<<>>, ~profile.has_emergency_fund /\ equity_pct > 50 * MP,
                       WarnEmergencyFund)
        w2 == AppendIf(w1, ~profile.has_adequate_insurance, WarnInsurance)
        w3 == AppendIf(w2, equity_pct > 80 * MP, WarnHighEquity)
        w4 == AppendIf(w3, profile.age > 60 /\ equity_pct > 50 * MP, WarnAge)
        w5 == AppendIf(w4, profile.monthly_investment < 5000, WarnLowInvestment)
        \* investment_ratio = investment / income * 100 if income > 0 else 0
        ratio_over_50 == /\ profile.monthly_income > 0
                         /\ profile.monthly_investment * 100 > 50 * profile.monthly_income
    IN  AppendIf(w5, ratio_over_50, WarnHighRatio)

RecSimplicity == "SIMPLICITY"
RecRebalancing == "REBALANCING"
RecNoMarketTiming == "NO MARKET TIMING"
RecIndexFunds == "INDEX FUNDS"
RecSipDiscipline == "SIP DISCIPLINE"
RecGoalBased == "GOAL-BASED"
RecTaxEfficiency == "TAX EFFICIENCY"
RecFundSelection == "FUND SELECTION"
RecReviewSchedule == "REVIEW SCHEDULE"

generate_recommendations_inclusive(profile, equity_pct, num_funds) ==
    LET r3 == <<RecSimplicity, RecRebalancing, RecNoMarketTiming>>
        r4 == AppendIf(r3, equity_pct >= 30 * MP, RecIndexFunds)
        r5 == AppendIf(r4, profile.monthly_investment >= 0, RecSipDiscipline)
        r6 == Append(r5, RecGoalBased)
        r7 == AppendIf(r6, equity_pct >= 40 * MP, RecTaxEfficiency)
    IN  r7 \o <<RecFundSelection, RecReviewSchedule>>

\* generate_recommendations(profile, equity_pct in mp, num_funds)
generate_recommendations(profile, equity_pct, num_funds) ==
    LET r3 == <<RecSimplicity, RecRebalancing, RecNoMarketTiming>>
        r4 == AppendIf(r3, equity_pct > 30 * MP, RecIndexFunds)
        r5 == AppendIf(r4, profile.monthly_investment > 0, RecSipDiscipline)
        r6 == Append(r5, RecGoalBased)
        r7 == AppendIf(r6, equity_pct > 40 * MP, RecTaxEfficiency)
    IN  r7 \o <<RecFundSelection, RecReviewSchedule>>

(***************************************************************************)
(* Outcomes of a call: what it returned, or what it raised.                *)
(***************************************************************************)
Return(v) == [ret |-> <<v>>, exc |-> NoExc]
Raise(type, message) == [ret |-> <<>>, exc |-> <<type, message>>]

AssetAllocationPlan(profile, e, d, eq, db, sip, lump, trig, warn, recs) ==
    [user_profile |-> profile,
     equity_percentage |-> e,
     debt_percentage |-> d,
     equity_allocations |-> eq,
     debt_allocations |-> db,
     monthly_sip_breakdown |-> sip,
     lumpsum_breakdown |-> lump,
     rebalancing_triggers |-> trig,
     warnings |-> warn,
     recommendations |-> recs,
     \* field(default_factory=datetime.now)
     created_at |-> now]

\* the FundAllocation objects of `own` as the plan sees them: an object that
\* also sits in all_allocations carries the amount written there
Shared(own, other, all) ==
    [k \in DOMAIN own |-> IF k \in DOMAIN other THEN own[k] ELSE all[k]]

\* FundAllocation.to_dict
to_dict(self) ==
    [category |-> self.category,
     subcategory |-> self.subcategory,
     percentage |-> self.percentage,
     amount |-> self.amount,
     recommended_funds |-> self.recommended_funds]

\* datetime.isoformat(): the text of the timestamp
isoformat(t) == <<"isoformat", t>>

\* AssetAllocationPlan.get_total_funds_count
get_total_funds_count(self) ==
    Cardinality(DOMAIN self.equity_allocations) + Cardinality(DOMAIN self.debt_allocations)

\* AssetAllocationPlan.get_all_allocations
get_all_allocations(self) == Merge(self.equity_allocations, self.debt_allocations)

\* AssetAllocationPlan.export_to_dict
export_to_dict(self) ==
    [user_age |-> self.user_profile.age,
     equity_percentage |-> self.equity_percentage,
     debt_percentage |-> self.debt_percentage,
     equity_allocations |->
        [k \in DOMAIN self.equity_allocations |-> to_dict(self.equity_allocations[k])],
     debt_allocations |->
        [k \in DOMAIN self.debt_allocations |-> to_dict(self.debt_allocations[k])],
     monthly_sip_breakdown |-> self.monthly_sip_breakdown,
     lumpsum_breakdown |-> self.lumpsum_breakdown,
     warnings |-> self.warnings,
     recommendations |-> self.recommendations,
     created_at |-> isoformat(self.created_at)]

(***************************************************************************)
(* create_plan, after validation and the split succeeded and the strategy  *)
(* is resolved: lines 624-661.                                             *)
(***************************************************************************)
assemble_plan(profile, split, equity_strategy, debt_strategy, add_international, sector_allocation, drift_threshold) ==
    LET equity_pct == split[1]
        debt_pct == split[2]
        equity_set == allocate_equity(equity_pct, equity_strategy, add_international,
                                      sector_allocation)
        debt_set == allocate_debt(debt_pct, debt_strategy)
        warnings == generate_warnings(profile, equity_pct)
        Plans(equity_allocs, debt_allocs) ==
            LET all_allocations == Merge(equity_allocs, debt_allocs)
                recommendations ==
                    generate_recommendations(profile, equity_pct,
                                             Cardinality(DOMAIN all_allocations))
            IN  UNION {UNION {
                  {Return(AssetAllocationPlan(profile, e, d,
                        Shared(equity_allocs, debt_allocs, second[1]),
                        Shared(debt_allocs, <<>>, second[1]),
                        first[2], second[2], triggers, warnings, recommendations)) :
                     triggers \in set_rebalancing_triggers(InMP(second[1]), drift_threshold),
                     e \in round(equity_pct, MP \div BP),
                     d \in round(debt_pct, MP \div BP)} :
                  second \in calculate_fund_amounts(first[1], profile.lump_sum_investment)} :
                first \in calculate_fund_amounts(all_allocations, profile.monthly_investment)}
    IN  IF equity_set = {} THEN {Raise("KeyError", <<equity_strategy>>)}
        ELSE IF debt_set = {} THEN {Raise("KeyError", <<debt_strategy>>)}
        ELSE UNION {UNION {Plans(eq, db) : db \in debt_set} : eq \in equity_set}

create_plan_skips_validation(profile, equity_strategy, debt_strategy, add_international, sector_allocation, drift_threshold) ==
    LET split_set == calculate_equity_debt_split(profile)
        strategy == IF equity_strategy = None
                    THEN get_age_based_strategy(profile.age)
                    ELSE equity_strategy
    IN  IF split_set = {} THEN {Raise("KeyError", <<profile.risk_profile>>)}
        ELSE UNION {assemble_plan(profile, split, strategy, debt_strategy,
                                  add_international, sector_allocation, drift_threshold) :
                        split \in split_set}

create_plan_strategy_from_age(profile, equity_strategy, debt_strategy, add_international, sector_allocation, drift_threshold) ==
    LET validation == validate(profile)
        is_valid == validation[1]
        errors == validation[2]
        split_set == calculate_equity_debt_split(profile)
        strategy == get_age_based_strategy(profile.age)
    IN  IF ~is_valid THEN {Raise("ValueError", <<"Invalid profile: ">> \o errors)}
        ELSE IF split_set = {} THEN {Raise("KeyError", <<profile.risk_profile>>)}
        ELSE UNION {assemble_plan(profile, split, strategy, debt_strategy,
                                  add_international, sector_allocation, drift_threshold) :
                        split \in split_set}

(***************************************************************************)
(* AssetAllocationEngine.create_plan: the outcomes the call can have.      *)
(* The ValueError message is "Invalid profile: " followed by the errors    *)
(* joined with ", ": the sequence of its parts.                            *)
(***************************************************************************)
create_plan(profile, equity_strategy, debt_strategy, add_international, sector_allocation, drift_threshold) ==
    LET validation == validate(profile)
        is_valid == validation[1]
        errors == validation[2]
        split_set == calculate_equity_debt_split(profile)
        strategy == IF equity_strategy = None
                    THEN get_age_based_strategy(profile.age)
                    ELSE equity_strategy
    IN  IF ~is_valid THEN {Raise("ValueError", <<"Invalid profile: ">> \o errors)}
        ELSE IF split_set = {} THEN {Raise("KeyError", <<profile.risk_profile>>)}
        ELSE UNION {assemble_plan(profile, split, strategy, debt_strategy,
                                  add_international, sector_allocation, drift_threshold) :
                        split \in split_set}

(***************************************************************************)
(* PortfolioRebalancer.  Holding values are whole rupees, percentages bp,  *)
(* trades paise.  A dict is a function from its keys; dicts are iterated   *)
(* in the order of FundOrder.                                              *)
(***************************************************************************)
FundOrder == <<"largecap", "midcap", "FD">>
Funds == {FundOrder[i] : i \in 1..Len(FundOrder)}

\* sum(d.values())
RECURSIVE SumValues(_)
SumValues(d) ==
    IF DOMAIN d = {} THEN 0
    ELSE LET k == CHOOSE x \in DOMAIN d : TRUE
         IN  d[k] + SumValues([j \in DOMAIN d \ {k} |-> d[j]])

get_allocation_summary_sums_row_amounts(self) ==
    [total_funds |-> get_total_funds_count(self),
     equity_funds |-> Cardinality(DOMAIN self.equity_allocations),
     debt_funds |-> Cardinality(DOMAIN self.debt_allocations),
     equity_percentage |-> self.equity_percentage,
     debt_percentage |-> self.debt_percentage,
     monthly_sip_total |->
        SumValues([k \in DOMAIN get_all_allocations(self) |->
                      get_all_allocations(self)[k].amount]),
     lumpsum_total |-> SumValues(self.lumpsum_breakdown)]

\* AssetAllocationPlan.get_allocation_summary
get_allocation_summary(self) ==
    [total_funds |-> get_total_funds_count(self),
     equity_funds |-> Cardinality(DOMAIN self.equity_allocations),
     debt_funds |-> Cardinality(DOMAIN self.debt_allocations),
     equity_percentage |-> self.equity_percentage,
     debt_percentage |-> self.debt_percentage,
     monthly_sip_total |-> SumValues(self.monthly_sip_breakdown),
     lumpsum_total |-> SumValues(self.lumpsum_breakdown)]

\* d.get(k, 0.0)
Get(d, k) == IF k \in DOMAIN d THEN d[k] ELSE 0

\* calculate_current_allocation(current_values): the maps fund -> bp it can
\* return
calculate_current_allocation(current_values) ==
    LET total == SumValues(current_values)
    IN  IF total <= 0 THEN {<<>>}
        ELSE MapChoices([fund \in DOMAIN current_values |->
                            round(current_values[fund] * 100 * BP, total)])

\* the size of a meaningful trade, rupees (line 721)
MinTrade == 100

IsMeaningful_inclusive(trade_amount) == Abs(trade_amount) >= MinTrade * 100 * BP

\* abs(trade_amount) > 100, trade_amount in hundredths of a paisa
IsMeaningful(trade_amount) == Abs(trade_amount) > MinTrade * 100 * BP

\* the target percentage applied to the category's own value
TradeAmount_of_own_value(current_values, target_allocation_pct, fund) ==
    Get(target_allocation_pct, fund) * Get(current_values, fund)
        - Get(current_values, fund) * 100 * BP

\* target_val - current_val in hundredths of a paisa:
\* (target_pct / 100) * total_value - current_val, target_pct in bp
TradeAmount(current_values, target_allocation_pct, fund) ==
    Get(target_allocation_pct, fund) * SumValues(current_values)
        - Get(current_values, fund) * 100 * BP

calculate_rebalance_trades_degrades(current_values, target_allocation_pct) ==
    LET total_value == SumValues(current_values)
        funds == DOMAIN current_values \cup DOMAIN target_allocation_pct
        shown == {fund \in funds :
                    IsMeaningful(TradeAmount(current_values, target_allocation_pct, fund))}
    IN  IF total_value <= 0 THEN {<<>>}
        ELSE MapChoices([fund \in shown |->
                round(TradeAmount(current_values, target_allocation_pct, fund), BP)])

(***************************************************************************)
(* calculate_rebalance_trades(current_values, target_allocation_pct in    *)
(* bp): the maps fund -> paise it can return; empty when it raises         *)
(* ValueError.                                                             *)
(***************************************************************************)
calculate_rebalance_trades(current_values, target_allocation_pct) ==
    LET total_value == SumValues(current_values)
        funds == DOMAIN current_values \cup DOMAIN target_allocation_pct
        shown == {fund \in funds :
                    IsMeaningful(TradeAmount(current_values, target_allocation_pct, fund))}
    IN  IF total_value <= 0 THEN {}
        ELSE MapChoices([fund \in shown |->
                round(TradeAmount(current_values, target_allocation_pct, fund), BP)])

HasDrifted_at_half(drift, drift_threshold) == 2 * drift >= drift_threshold

HasDrifted_strict(drift, drift_threshold) == drift > drift_threshold

\* drift >= drift_threshold
HasDrifted(drift, drift_threshold) == drift >= drift_threshold

\* the entry of one drifted fund: the values the message names (mp); the
\* drift is formatted with one decimal ({drift:.1f}), in tenths of a percent
DriftEntries(fund, target, current, drift) ==
    {[fund |-> fund, target |-> target, current |-> current, drift |-> d] :
        d \in round(drift, MP \div 10)}

\* the lists of drifted funds the loop over FundOrder[i..] can build
RECURSIVE DriftedFrom(_, _, _, _)
DriftedFrom(i, current_pct, target_pct, drift_threshold) ==
    IF i > Len(FundOrder) THEN {<<>>}
    ELSE LET fund == FundOrder[i]
             rest == DriftedFrom(i + 1, current_pct, target_pct, drift_threshold)
         IN  IF fund \notin DOMAIN target_pct THEN rest
             ELSE LET target == target_pct[fund]
                      current == Get(current_pct, fund)
                      drift == Abs(current - target)
                  IN  IF HasDrifted(drift, drift_threshold)
                      THEN {<<e>> \o r :
                              e \in DriftEntries(fund, target, current, drift),
                              r \in rest}
                      ELSE rest

\* check_rebalancing_needed(current_pct, target_pct, drift_threshold), all mp:
\* the (needed, drifted_funds) it can return
check_rebalancing_needed(current_pct, target_pct, drift_threshold) ==
    {<<Len(drifted_funds) > 0, drifted_funds>> :
        drifted_funds \in DriftedFrom(1, current_pct, target_pct, drift_threshold)}

(***************************************************************************)
(* Inputs                                                                  *)
(***************************************************************************)
\* every bracket edge of the age rules: 18/100 (validation), 20/80 (age
\* heuristic), 35/50 (strategy), 35/55 (risk profile), 60 (warning)
Ages == {17, 18, 19, 20, 21, 30, 34, 35, 49, 50, 54, 55, 60, 61, 79, 80, 81, 100, 101}
Incomes == {-2, 0, 10000, 100000}
Investments == {-1, 0, 5000, 10000, 30000}
LumpSums == {-1, 0, 50000}
RiskProfiles == {None, "conservative", "moderate", "aggressive", "reckless"}
\* mp: absent, -0.001, 0, 0.015 and 12.345 (half-way between two
\* hundredths), 50, 100, 100.001
CustomPcts == {NoValue, Some(-1), Some(0), Some(15), Some(12345), Some(50 * MP), Some(100 * MP), Some(100 * MP + 1)}

ValidateProfiles ==
    {UserProfile(age, income, investment, lump_sum, None, FALSE, FALSE, custom) :
        age \in Ages, income \in Incomes, investment \in Investments,
        lump_sum \in LumpSums, custom \in CustomPcts}

SplitProfiles ==
    {UserProfile(age, 100000, 30000, 0, risk, FALSE, FALSE, custom) :
        age \in Ages, risk \in RiskProfiles, custom \in CustomPcts}

\* mp: every whole percent, and 0.015, 12.345, 33.333
EquityPcts == {p * MP : p \in 0..100} \cup {15, 12345, 33333}
EquityStrategies == DOMAIN equity_templates \cup {"momentum"}
DebtStrategies == DOMAIN debt_templates \cup {"short_term"}
\* whole percent: below, at and above the edges of the clamp to [0, 15]
SectorAllocations == {-5, 0, 5, 15, 20}

PlanAges == {17, 18, 30, 34, 35, 49, 50, 61, 100}
PlanProfiles ==
    {UserProfile(age, income, investment, lump_sum, risk, emergency, FALSE, custom) :
        age \in PlanAges, income \in {-1, 100000}, investment \in {0, 30000},
        lump_sum \in LumpSums, risk \in {None, "moderate", "reckless"},
        emergency \in BOOLEAN,
        custom \in {NoValue, Some(0), Some(15), Some(100 * MP + 1)}}
PlanStrategies == {None, "index_core", "aggressive_growth", "momentum"}
\* the default 5.0 (mp)
DriftThresholds == {5 * MP}

\* the rebalancer's funds; holdings in steps of 100 rupees, one of them negative
MaxFunds == 2
MaxHolding == 4
RebalanceFunds == {FundOrder[i] : i \in 1..Min(MaxFunds, Len(FundOrder))}
HoldingValues == {100 * i : i \in -1..MaxHolding}
\* every dict with keys among the funds and values in V
Dicts(V) == UNION {[D -> V] : D \in SUBSET RebalanceFunds}
\* bp
TargetPcts == {0, 3000, 7000, 10000}
\* mp: the percentages compared with the targets, whether produced by
\* calculate_current_allocation (two decimals: 0, 30, 70, 75, 75.05) or
\* supplied by the caller (28.332)
DriftPcts == {0, 28332, 30000, 70000, 75000, 75050}
\* mp: the targets, of two decimals (0, 30, 70, 75) and of three (33.333)
DriftTargetPcts == {0, 30000, 33333, 70000, 75000}
\* mp: the default 5.0, then 5.006 and 10.0
CheckThresholds == {5 * MP, 5006, 10 * MP}

\* generate_warnings: both sides of every comparison.  Equity (mp) at and
\* just above 50 and 80, and 70; age 60 and 61; investment around 5000, which
\* is exactly half of the income 10000; income 0
WarningProfiles ==
    {UserProfile(age, income, investment, 0, None, emergency, insurance, NoValue) :
        age \in {60, 61}, income \in {0, 10000}, investment \in {0, 4999, 5000, 5001},
        emergency \in BOOLEAN, insurance \in BOOLEAN}
WarningEquityPcts == {50 * MP, 50 * MP + 1, 70 * MP, 80 * MP, 80 * MP + 1}

\* set_rebalancing_triggers called directly: rows with a percentage (mp) of
\* two decimals (0, 24.5, 50, 100) and of three (0.004, 50.004, 99.996), and
\* thresholds (mp) -1, 0, 0.005, the default 5, 10 and 100
TriggerTargets == {0, 4, 24500, 50000, 50004, 99996, 100 * MP}
TriggerAllocations ==
    {[largecap |-> FundAllocation("Equity", "Largecap", t)] : t \in TriggerTargets}
        \cup {[largecap |-> FundAllocation("Equity", "Largecap", t),
                FD |-> FundAllocation("Debt", "Fd", 100 * MP - t)] : t \in TriggerTargets}
TriggerThresholds == {-1 * MP, 0, 5, 5 * MP, 10 * MP, 100 * MP}

\* generate_recommendations: equity (mp) at and just above 30 and 40, and the
\* extremes; monthly investment at and just above 0; any fund count
RecommendationProfiles ==
    {UserProfile(30, 100000, investment, 0, None, TRUE, TRUE, NoValue) :
        investment \in {0, 1, 30000}}
RecommendationEquityPcts == {0, 30 * MP, 30 * MP + 1, 40 * MP, 40 * MP + 1, 100 * MP}
FundCounts == {0, 1, 4, 7}

\* goals on both sides of the 3- and 7-year edges, one already due
YearsToGoal == {-1, 0, 1, 2, 3, 4, 5, 6, 7, 8, 30}
Goals ==
    {FinancialGoal("goal", target_amount, years_to_goal, priority) :
        target_amount \in {0, 1000000}, years_to_goal \in YearsToGoal, priority \in {1, 5}}

\* the plans whose methods are called: those create_plan makes for valid
\* profiles with and without a monthly pool and a lump sum, under the age
\* rule and a custom 0.015, with and without the carve-outs
MethodProfiles ==
    {UserProfile(age, 100000, investment, lump_sum, None, FALSE, FALSE, custom) :
        age \in {30, 61}, investment \in {0, 30000}, lump_sum \in {0, 50000},
        custom \in {NoValue, Some(15)}}
CreatedPlans ==
    UNION {{o.ret[1] : o \in {x \in create_plan(profile, equity_strategy, "long_term",
                                                  add_international, sector_allocation,
                                                  5 * MP) : x.ret # <<>>}} :
              profile \in MethodProfiles, equity_strategy \in {None, "index_core"},
              add_international \in BOOLEAN, sector_allocation \in {0, 20}}

(***************************************************************************)
(* The dashboard (streamlit_app.py).  Streamlit runs main from top to      *)
(* bottom when the form is submitted and when a widget outside the form    *)
(* and the fragment is used; st.session_state is a dict that outlives the  *)
(* runs.  session_state is that dict, as a function from its keys, and     *)
(* screen is what the latest run of main drew below the sidebar: what kind *)
(* of content, the content, and whether the footer followed it.            *)
(***************************************************************************)
Screen(kind, content, footer) == [main |-> kind, content |-> content, footer |-> footer]

\* the values of the sidebar's widgets as render_sidebar returns them, with
\* the custom percentage in mp; the radio decides which of risk_profile and
\* custom_equity is None
SidebarValues ==
    {[age |-> age, monthly_income |-> income, monthly_investment |-> 30000,
      lump_sum |-> 0, emergency_fund |-> FALSE, insurance |-> FALSE,
      custom_equity |-> method[2], risk_profile |-> method[1],
      equity_strategy |-> "index_core"] :
        age \in {30, 61}, income \in {0, 100000},
        method \in {<<"moderate", NoValue>>, <<None, Some(70 * MP)>>}}

\* render_risk_preferences_fragment: the three keys it writes
render_risk_preferences_fragment(state, values) ==
    Merge(state,
          [allocation_method |-> IF values.risk_profile # None
                                 THEN "Risk Profile" ELSE "Custom",
           risk_profile |-> values.risk_profile,
           custom_equity |-> values.custom_equity])

\* a store that keeps the plan it already has
Store_keeps_first(state, plan, values) ==
    IF "plan" \in DOMAIN state THEN state
    ELSE Merge(state,
               [plan |-> plan,
                profile_data |-> [age |-> values.age,
                                  monthly_income |-> values.monthly_income,
                                  monthly_investment |-> values.monthly_investment,
                                  lump_sum |-> values.lump_sum]])

\* st.session_state.plan = plan, st.session_state.profile_data = {...}
Store(state, plan, values) ==
    Merge(state,
          [plan |-> plan,
           profile_data |-> [age |-> values.age,
                             monthly_income |-> values.monthly_income,
                             monthly_investment |-> values.monthly_investment,
                             lump_sum |-> values.lump_sum]])

\* the arguments main gives create_plan, the rest being the defaults
PlanCall(profile, equity_strategy) ==
    [profile |-> profile, equity_strategy |-> equity_strategy,
     debt_strategy |-> "long_term", add_international |-> FALSE,
     sector_allocation |-> 0, drift_threshold |-> 5 * MP]

(***************************************************************************)
(* main(), run on the session state with the widgets' values and the       *)
(* submit button: the outcomes it can have, each the session state it      *)
(* leaves, the screen it draws and the create_plan calls it made.  An      *)
(* early return leaves the page without its footer.                        *)
(***************************************************************************)
main(state, values, submit_button) ==
    LET sidebar == render_risk_preferences_fragment(state, values)
        profile == UserProfile(values.age, values.monthly_income,
                               values.monthly_investment, values.lump_sum,
                               values.risk_profile, values.emergency_fund,
                               values.insurance, values.custom_equity)
        validation == validate(profile)
        call == PlanCall(profile, values.equity_strategy)
        Served(o) == <<[args |-> call, ret |-> o.ret, exc |-> o.exc]>>
    IN  IF ~(submit_button \/ "plan" \in DOMAIN sidebar)
        THEN {[session_state |-> sidebar,
               screen |-> Screen("welcome", <<>>, TRUE),
               calls |-> <<>>]}
        ELSE IF ~submit_button
        THEN {[session_state |-> sidebar,
               screen |-> Screen("plan", <<sidebar.plan>>, TRUE),
               calls |-> <<>>]}
        ELSE IF ~validation[1]
        THEN {[session_state |-> sidebar,
               screen |-> Screen("errors", validation[2], FALSE),
               calls |-> <<>>]}
        ELSE {IF o.ret = <<>>
              THEN [session_state |-> sidebar,
                    screen |-> Screen("error", <<o.exc>>, FALSE),
                    calls |-> Served(o)]
              ELSE [session_state |-> Store(sidebar, o.ret[1], values),
                    screen |-> Screen("plan", <<o.ret[1]>>, TRUE),
                    calls |-> Served(o)] :
                o \in create_plan(call.profile, call.equity_strategy,
                                  call.debt_strategy, call.add_international,
                                  call.sector_allocation, call.drift_threshold)}

(***************************************************************************)
(* The state: the call made.  Every function is pure and no call depends   *)
(* on an earlier one, so a behaviour is one call from the initial state.   *)
(***************************************************************************)
Init ==
    /\ op = "init"
    /\ args = <<>>
    /\ ret = <<>>
    /\ exc = NoExc
    /\ now = 0
    /\ plans = <<>>
    /\ engine = AssetAllocationEngine
    /\ session_state = <<>>
    /\ screen = Screen("blank", <<>>, FALSE)

Validate ==
    /\ op = "init"
    /\ \E profile \in ValidateProfiles :
        \E o \in {Return(validate(profile))} :
            /\ op' = "validate"
            /\ args' = [profile |-> profile]
            /\ ret' = o.ret
            /\ exc' = o.exc
            /\ UNCHANGED <<now, plans, engine, session_state, screen>>

\* the outcomes of calculate_equity_debt_split: the split, or the KeyError
\* of the risk-profile lookup
SplitOutcomes(profile) ==
    LET split_set == calculate_equity_debt_split(profile)
    IN  IF split_set = {}
        THEN {Raise("KeyError", <<profile.risk_profile>>)}
        ELSE {Return(split) : split \in split_set}

CalculateEquityDebtSplit ==
    /\ op = "init"
    /\ \E profile \in SplitProfiles :
        \E o \in SplitOutcomes(profile) :
            /\ op' = "calculate_equity_debt_split"
            /\ args' = [profile |-> profile]
            /\ ret' = o.ret
            /\ exc' = o.exc
            /\ UNCHANGED <<now, plans, engine, session_state, screen>>

AllocateEquity ==
    /\ op = "init"
    /\ \E equity_pct \in EquityPcts, strategy \in EquityStrategies,
          add_international \in BOOLEAN, sector_allocation \in SectorAllocations :
        LET allocs == allocate_equity(equity_pct, strategy, add_international,
                                      sector_allocation)
        IN  \E o \in IF allocs = {} THEN {Raise("KeyError", <<strategy>>)}
                      ELSE {Return(a) : a \in allocs} :
                /\ op' = "allocate_equity"
                /\ args' = [equity_pct |-> equity_pct, strategy |-> strategy,
                            add_international |-> add_international,
                            sector_allocation |-> sector_allocation]
                /\ ret' = o.ret
                /\ exc' = o.exc
                /\ UNCHANGED <<now, plans, engine, session_state, screen>>

AllocateDebt ==
    /\ op = "init"
    /\ \E debt_pct \in EquityPcts, strategy \in DebtStrategies :
        LET allocs == allocate_debt(debt_pct, strategy)
        IN  \E o \in IF allocs = {} THEN {Raise("KeyError", <<strategy>>)}
                      ELSE {Return(a) : a \in allocs} :
                /\ op' = "allocate_debt"
                /\ args' = [debt_pct |-> debt_pct, strategy |-> strategy]
                /\ ret' = o.ret
                /\ exc' = o.exc
                /\ UNCHANGED <<now, plans, engine, session_state, screen>>

CreatePlan ==
    /\ op = "init"
    /\ \E profile \in PlanProfiles, equity_strategy \in PlanStrategies,
          debt_strategy \in DebtStrategies, add_international \in BOOLEAN,
          sector_allocation \in {0, 20}, drift_threshold \in DriftThresholds :
        \E o \in create_plan(profile, equity_strategy, debt_strategy,
                             add_international, sector_allocation, drift_threshold) :
            /\ op' = "create_plan"
            /\ args' = [profile |-> profile, equity_strategy |-> equity_strategy,
                        debt_strategy |-> debt_strategy,
                        add_international |-> add_international,
                        sector_allocation |-> sector_allocation,
                        drift_threshold |-> drift_threshold]
            /\ ret' = o.ret
            /\ exc' = o.exc
            /\ UNCHANGED <<now, plans, engine, session_state, screen>>

CalculateCurrentAllocation ==
    /\ op = "init"
    /\ \E current_values \in Dicts(HoldingValues) :
        \E o \in {Return(a) : a \in calculate_current_allocation(current_values)} :
            /\ op' = "calculate_current_allocation"
            /\ args' = [current_values |-> current_values]
            /\ ret' = o.ret
            /\ exc' = o.exc
            /\ UNCHANGED <<now, plans, engine, session_state, screen>>

CalculateRebalanceTrades ==
    /\ op = "init"
    /\ \E current_values \in Dicts(HoldingValues),
          target_allocation_pct \in Dicts(TargetPcts) :
        LET trades == calculate_rebalance_trades(current_values, target_allocation_pct)
        IN  \E o \in IF trades = {}
                      THEN {Raise("ValueError",
                                  <<"Current portfolio value must be positive">>)}
                      ELSE {Return(t) : t \in trades} :
                /\ op' = "calculate_rebalance_trades"
                /\ args' = [current_values |-> current_values,
                            target_allocation_pct |-> target_allocation_pct]
                /\ ret' = o.ret
                /\ exc' = o.exc
                /\ UNCHANGED <<now, plans, engine, session_state, screen>>

CheckRebalancingNeeded ==
    /\ op = "init"
    /\ \E current_pct \in Dicts(DriftPcts), target_pct \in Dicts(DriftTargetPcts),
          drift_threshold \in CheckThresholds :
        \E o \in {Return(r) :
                    r \in check_rebalancing_needed(current_pct, target_pct,
                                                   drift_threshold)} :
            /\ op' = "check_rebalancing_needed"
            /\ args' = [current_pct |-> current_pct, target_pct |-> target_pct,
                        drift_threshold |-> drift_threshold]
            /\ ret' = o.ret
            /\ exc' = o.exc
            /\ UNCHANGED <<now, plans, engine, session_state, screen>>

GenerateWarnings ==
    /\ op = "init"
    /\ \E profile \in WarningProfiles, equity_pct \in WarningEquityPcts :
        \E o \in {Return(generate_warnings(profile, equity_pct))} :
            /\ op' = "generate_warnings"
            /\ args' = [profile |-> profile, equity_pct |-> equity_pct]
            /\ ret' = o.ret
            /\ exc' = o.exc
            /\ UNCHANGED <<now, plans, engine, session_state, screen>>

SetRebalancingTriggers ==
    /\ op = "init"
    /\ \E allocations \in TriggerAllocations, drift_threshold \in TriggerThresholds :
        \E o \in {Return(t) : t \in set_rebalancing_triggers(allocations, drift_threshold)} :
            /\ op' = "set_rebalancing_triggers"
            /\ args' = [allocations |-> allocations, drift_threshold |-> drift_threshold]
            /\ ret' = o.ret
            /\ exc' = o.exc
            /\ UNCHANGED <<now, plans, engine, session_state, screen>>

GenerateRecommendations ==
    /\ op = "init"
    /\ \E profile \in RecommendationProfiles, equity_pct \in RecommendationEquityPcts,
          num_funds \in FundCounts :
        \E o \in {Return(generate_recommendations(profile, equity_pct, num_funds))} :
            /\ op' = "generate_recommendations"
            /\ args' = [profile |-> profile, equity_pct |-> equity_pct,
                        num_funds |-> num_funds]
            /\ ret' = o.ret
            /\ exc' = o.exc
            /\ UNCHANGED <<now, plans, engine, session_state, screen>>

GetAgeBasedStrategy ==
    /\ op = "init"
    /\ \E age \in Ages :
        \E o \in {Return(get_age_based_strategy(age))} :
            /\ op' = "get_age_based_strategy"
            /\ args' = [age |-> age]
            /\ ret' = o.ret
            /\ exc' = o.exc
            /\ UNCHANGED <<now, plans, engine, session_state, screen>>

GetRiskProfileFromAge ==
    /\ op = "init"
    /\ \E age \in Ages :
        \E o \in {Return(get_risk_profile_from_age(age))} :
            /\ op' = "get_risk_profile_from_age"
            /\ args' = [age |-> age]
            /\ ret' = o.ret
            /\ exc' = o.exc
            /\ UNCHANGED <<now, plans, engine, session_state, screen>>

Timeframe ==
    /\ op = "init"
    /\ \E goal \in Goals :
        \E o \in {Return(timeframe(goal))} :
            /\ op' = "timeframe"
            /\ args' = [self |-> goal]
            /\ ret' = o.ret
            /\ exc' = o.exc
            /\ UNCHANGED <<now, plans, engine, session_state, screen>>

ExportToDict ==
    /\ op = "init"
    /\ \E plan \in CreatedPlans :
        \E o \in {Return(export_to_dict(plan))} :
            /\ op' = "export_to_dict"
            /\ args' = [self |-> plan]
            /\ ret' = o.ret
            /\ exc' = o.exc
            /\ UNCHANGED <<now, plans, engine, session_state, screen>>

GetAllocationSummary ==
    /\ op = "init"
    /\ \E plan \in CreatedPlans :
        \E o \in {Return(get_allocation_summary(plan))} :
            /\ op' = "get_allocation_summary"
            /\ args' = [self |-> plan]
            /\ ret' = o.ret
            /\ exc' = o.exc
            /\ UNCHANGED <<now, plans, engine, session_state, screen>>

Next ==
    \/ Validate
    \/ CalculateEquityDebtSplit
    \/ AllocateEquity
    \/ AllocateDebt
    \/ CreatePlan
    \/ CalculateCurrentAllocation
    \/ CalculateRebalanceTrades
    \/ CheckRebalancingNeeded
    \/ GenerateWarnings
    \/ SetRebalancingTriggers
    \/ GenerateRecommendations
    \/ GetAgeBasedStrategy
    \/ GetRiskProfileFromAge
    \/ Timeframe
    \/ ExportToDict
    \/ GetAllocationSummary

Spec == Init /\ [][Next]_vars

(***************************************************************************)
(* One engine serving create_plan again and again.  plans is the list of   *)
(* the calls served, each with its arguments and its outcome; every call   *)
(* reads the clock, which has moved on since the call before.              *)
(***************************************************************************)
MaxCalls == 3

\* the calls made of the engine: the profile of the module's quick test, a
\* custom 0.015 whose percentages all round at a half-way value, a tagged
\* 61-year-old under two strategies, and a minor
EngineCalls ==
    {[profile |-> c[1], equity_strategy |-> c[2], debt_strategy |-> "long_term",
      add_international |-> c[3], sector_allocation |-> 0, drift_threshold |-> 5 * MP] :
        c \in {<<UserProfile(30, 100000, 30000, 0, None, FALSE, FALSE, NoValue), None, FALSE>>,
               <<UserProfile(30, 100000, 30000, 50000, None, FALSE, FALSE, Some(15)), "index_core", FALSE>>,
               <<UserProfile(61, 100000, 0, 0, "moderate", TRUE, FALSE, NoValue), None, TRUE>>,
               <<UserProfile(61, 100000, 0, 0, "moderate", TRUE, FALSE, NoValue), "index_core", TRUE>>,
               <<UserProfile(17, 100000, 30000, 0, None, FALSE, FALSE, NoValue), None, FALSE>>}}

\* an outcome without the plan's timestamp
Undated(o) ==
    IF o.ret = <<>> THEN [ret |-> o.ret, exc |-> o.exc]
    ELSE [ret |-> <<[o.ret[1] EXCEPT !.created_at = 0]>>, exc |-> o.exc]

\* Floating-point arithmetic is a function: a float that an earlier call
\* rounded is rounded to the same neighbour by every later call.  Of the
\* outcomes create_plan can have, a call takes one that agrees with the
\* earlier calls of the same arguments wherever the engine computes the same.
Agreeing(outcomes, call) ==
    LET earlier == {plans[i] : i \in {j \in 1..Len(plans) : plans[j].args = call}}
        same == {o \in outcomes : \A c \in earlier : Undated(o) = Undated(c)}
    IN  IF same # {} THEN same ELSE outcomes

\* allocate_equity scaling the shares by base_pct in the engine's own table
\* instead of in a copy
CreatePlanOnEngine_scales_template ==
    /\ Len(plans) < MaxCalls
    /\ \E call \in EngineCalls :
        \E o \in Agreeing(create_plan(call.profile, call.equity_strategy,
                                       call.debt_strategy, call.add_international,
                                       call.sector_allocation, call.drift_threshold),
                           call) :
            LET strategy == IF call.equity_strategy = None
                            THEN get_age_based_strategy(call.profile.age)
                            ELSE call.equity_strategy
                base_pct == BasePct(IF call.add_international THEN 10 ELSE 0,
                                    ClampSector(call.sector_allocation))
            IN  /\ op' = "create_plan"
                /\ args' = call
                /\ ret' = o.ret
                /\ exc' = o.exc
                /\ now' = now + 1
                /\ plans' = Append(plans, [args |-> call, ret |-> o.ret, exc |-> o.exc])
                /\ engine' = IF o.ret = <<>> THEN engine
                             ELSE [engine EXCEPT !.equity_templates[strategy] =
                                      [f \in DOMAIN @ |-> (@[f] * base_pct) \div 100]]
                /\ UNCHANGED <<session_state, screen>>

CreatePlanOnEngine ==
    /\ Len(plans) < MaxCalls
    /\ \E call \in EngineCalls :
        \E o \in Agreeing(create_plan(call.profile, call.equity_strategy,
                                       call.debt_strategy, call.add_international,
                                       call.sector_allocation, call.drift_threshold),
                           call) :
            /\ op' = "create_plan"
            /\ args' = call
            /\ ret' = o.ret
            /\ exc' = o.exc
            /\ now' = now + 1
            /\ plans' = Append(plans, [args |-> call, ret |-> o.ret, exc |-> o.exc])
            /\ UNCHANGED <<engine, session_state, screen>>

\* the other operations called between the create_plan calls, each with
\* its arguments and the outcomes it can have
OtherCalls ==
    LET young == UserProfile(30, 100000, 30000, 0, None, FALSE, FALSE, NoValue)
        minor == UserProfile(17, 100000, 30000, 0, None, FALSE, FALSE, NoValue)
        holdings == [largecap |-> 300, midcap |-> 100]
        targets == [largecap |-> 7000, FD |-> 3000]
        drifted == [largecap |-> 70 * MP, FD |-> 30 * MP]
    IN  {[op |-> "validate", args |-> [profile |-> p],
          outcomes |-> {Return(validate(p))}] : p \in {young, minor}}
        \cup {[op |-> "calculate_equity_debt_split", args |-> [profile |-> young],
                outcomes |-> SplitOutcomes(young)]}
        \cup {[op |-> "allocate_equity",
                args |-> [equity_pct |-> 70 * MP, strategy |-> s,
                          add_international |-> TRUE, sector_allocation |-> 5],
                outcomes |-> {Return(a) : a \in allocate_equity(70 * MP, s, TRUE, 5)}] :
                    s \in DOMAIN equity_templates}
        \cup {[op |-> "allocate_debt", args |-> [debt_pct |-> 30 * MP, strategy |-> "long_term"],
                outcomes |-> {Return(a) : a \in allocate_debt(30 * MP, "long_term")}]}
        \cup {[op |-> "generate_warnings", args |-> [profile |-> young, equity_pct |-> 70 * MP],
                outcomes |-> {Return(generate_warnings(young, 70 * MP))}]}
        \cup {[op |-> "calculate_current_allocation", args |-> [current_values |-> holdings],
                outcomes |-> {Return(a) : a \in calculate_current_allocation(holdings)}]}
        \cup {[op |-> "calculate_rebalance_trades",
                args |-> [current_values |-> holdings, target_allocation_pct |-> targets],
                outcomes |-> {Return(t) : t \in calculate_rebalance_trades(holdings, targets)}]}
        \cup {[op |-> "check_rebalancing_needed",
                args |-> [current_pct |-> drifted, target_pct |-> drifted,
                          drift_threshold |-> 5 * MP],
                outcomes |-> {Return(r) : r \in check_rebalancing_needed(drifted, drifted, 5 * MP)}]}

\* another operation on the engine or the rebalancer between two plans
OperationOnEngine ==
    /\ Len(plans) < MaxCalls
    /\ \E call \in OtherCalls :
        \E o \in call.outcomes :
            /\ op' = call.op
            /\ args' = call.args
            /\ ret' = o.ret
            /\ exc' = o.exc
            /\ UNCHANGED <<now, plans, engine, session_state, screen>>

NextEngine ==
    \/ CreatePlanOnEngine
    \/ OperationOnEngine

SpecEngine == Init /\ [][NextEngine]_vars

(***************************************************************************)
(* One browser session of the dashboard.  plans is the list of the         *)
(* create_plan calls the runs of main made, each on an engine of its own.  *)
(***************************************************************************)
MaxRuns == 3

\* "Generate Plan" is pressed: main runs with submit_button true
Submit ==
    /\ now < MaxRuns
    /\ \E values \in SidebarValues :
        \E o \in main(session_state, values, TRUE) :
            /\ op' = "main"
            /\ args' = [values |-> values, submit_button |-> TRUE]
            /\ ret' = <<None>>
            /\ exc' = NoExc
            /\ now' = now + 1
            /\ plans' = plans \o o.calls
            /\ session_state' = o.session_state
            /\ screen' = o.screen
            /\ UNCHANGED engine

\* a widget outside the form and the fragment is used (the download button):
\* main runs with submit_button false
Rerun ==
    /\ now < MaxRuns
    /\ \E values \in SidebarValues :
        \E o \in main(session_state, values, FALSE) :
            /\ op' = "main"
            /\ args' = [values |-> values, submit_button |-> FALSE]
            /\ ret' = <<None>>
            /\ exc' = NoExc
            /\ now' = now + 1
            /\ plans' = plans \o o.calls
            /\ session_state' = o.session_state
            /\ screen' = o.screen
            /\ UNCHANGED engine

\* a widget of the fragment is used: the fragment alone runs again, and the
\* rest of the page stays as it was drawn
FragmentRerun ==
    /\ now < MaxRuns
    /\ \E values \in SidebarValues :
        /\ op' = "render_risk_preferences_fragment"
        /\ args' = [values |-> values, submit_button |-> FALSE]
        /\ ret' = <<None>>
        /\ exc' = NoExc
        /\ now' = now + 1
        /\ session_state' = render_risk_preferences_fragment(session_state, values)
        /\ UNCHANGED <<plans, engine, screen>>

NextDashboard ==
    \/ Submit
    \/ Rerun
    \/ FragmentRerun

SpecDashboard == Init /\ [][NextDashboard]_vars

(***************************************************************************)
(* Properties                                                              *)
(***************************************************************************)
\* the elements of a sequence
Range(seq) == {seq[i] : i \in 1..Len(seq)}

\* q is a nearest integer to num/den (den > 0): q is num/den rounded
IsRounded(q, num, den) == 2 * Abs(q * den - num) <= den

\* the validation rules, as the profile's data model states them
RuleOrder == <<ErrAge, ErrIncome, ErrInvestment, ErrExceeds, ErrLumpsum, ErrCustom>>
Violated(p, rule) ==
    CASE rule = ErrAge -> p.age \notin 18..100
      [] rule = ErrIncome -> ~(p.monthly_income >= 0)
      [] rule = ErrInvestment -> ~(p.monthly_investment >= 0)
      [] rule = ErrExceeds -> ~(p.monthly_investment <= p.monthly_income)
      [] rule = ErrLumpsum -> ~(p.lump_sum_investment >= 0)
      [] rule = ErrCustom -> /\ p.custom_equity_percentage # NoValue
                             /\ ~(p.custom_equity_percentage[1] >= 0 /\
                                   p.custom_equity_percentage[1] <= 100 * MP)
ViolatedRules(p) == {rule \in Range(RuleOrder) : Violated(p, rule)}

(* C1: create_plan on a profile that violates any validation rule raises a *)
(* ValueError and returns no plan, and the message names every violated    *)
(* rule.                                                                   *)
C1_InvalidProfileRefused ==
    (op = "create_plan" /\ ViolatedRules(args.profile) # {}) =>
        /\ ret = <<>>
        /\ exc # NoExc
        /\ exc[1] = "ValueError"
        /\ ViolatedRules(args.profile) \subseteq Range(exc[2])

\* an under-age profile with a custom percentage above 100 is refused, not
\* clamped, and both rules are named
C1_Witness ==
    /\ op = "create_plan"
    /\ args.profile.age < 18
    /\ args.profile.custom_equity_percentage = Some(100 * MP + 1)
    /\ ret = <<>>
    /\ exc # NoExc
    /\ {ErrAge, ErrCustom} \subseteq Range(exc[2])

(* C2: validate evaluates all six checks and returns (is_valid, errors):   *)
(* errors holds one message per violated rule in the fixed order, is_valid *)
(* is true exactly when errors is empty, and the boundary values 18, 100,  *)
(* 0 and investment = income are accepted.                                 *)
C2_ValidateReportsEveryViolation ==
    op = "validate" =>
        LET p == args.profile
            is_valid == ret[1][1]
            errors == ret[1][2]
            IsViolated(rule) == Violated(p, rule)
        IN  /\ errors = SelectSeq(RuleOrder, IsViolated)
            /\ is_valid = (errors = <<>>)
            /\ p.age \in {18, 100} => ErrAge \notin Range(errors)
            /\ p.monthly_income = 0 => ErrIncome \notin Range(errors)
            /\ p.monthly_investment = 0 => ErrInvestment \notin Range(errors)
            /\ p.monthly_investment = p.monthly_income => ErrExceeds \notin Range(errors)
            /\ p.lump_sum_investment = 0 => ErrLumpsum \notin Range(errors)
            /\ (p.custom_equity_percentage \in {Some(0), Some(100 * MP)})
                   => ErrCustom \notin Range(errors)

\* a profile that violates all six rules gets all six messages
C2_Witness ==
    /\ op = "validate"
    /\ ret[1][1] = FALSE
    /\ ret[1][2] = RuleOrder

(* C3: for every valid profile the equity and debt percentages returned by *)
(* calculate_equity_debt_split, and those stored in the plan by            *)
(* create_plan, sum to exactly 100 and each lies in [0, 100].              *)
C3_SplitSumsTo100 ==
    /\ (op = "calculate_equity_debt_split" /\ ret # <<>>
            /\ ViolatedRules(args.profile) = {}) =>
           /\ ret[1][1] + ret[1][2] = 100 * MP
           /\ ret[1][1] \in 0..(100 * MP)
           /\ ret[1][2] \in 0..(100 * MP)
    /\ (op = "create_plan" /\ ret # <<>>) =>
           /\ ret[1].equity_percentage + ret[1].debt_percentage = 100 * BP
           /\ ret[1].equity_percentage \in 0..(100 * BP)
           /\ ret[1].debt_percentage \in 0..(100 * BP)

(* C4: a custom equity percentage, whenever present (0 included), decides  *)
(* the equity percentage whatever the risk tag and the age; without it a   *)
(* risk tag gives 85 / 65 / 45 whatever the age; the age heuristic is used *)
(* only when both are absent.                                              *)
C4_SplitPriority ==
    op = "calculate_equity_debt_split" =>
        LET p == args.profile
            custom == p.custom_equity_percentage
        IN  /\ custom # NoValue =>
                  /\ ret # <<>>
                  /\ custom[1] \in 0..(100 * MP) => ret[1][1] = custom[1]
                  /\ custom[1] < 0 => ret[1][1] = 0
                  /\ custom[1] > 100 * MP => ret[1][1] = 100 * MP
            /\ (custom = NoValue /\ p.risk_profile = "aggressive") =>
                  ret = <<(<<85 * MP, 15 * MP>>)>>
            /\ (custom = NoValue /\ p.risk_profile = "moderate") =>
                  ret = <<(<<65 * MP, 35 * MP>>)>>
            /\ (custom = NoValue /\ p.risk_profile = "conservative") =>
                  ret = <<(<<45 * MP, 55 * MP>>)>>

\* custom 0 beats the aggressive tag of a 30-year-old
C4_Witness ==
    /\ op = "calculate_equity_debt_split"
    /\ args.profile.custom_equity_percentage = Some(0)
    /\ args.profile.risk_profile = "aggressive"
    /\ args.profile.age = 30
    /\ ret = <<(<<0, 100 * MP>>)>>

(* C5: with no custom percentage and no risk tag the equity percentage is  *)
(* 100 - age clamped to [20, 80] (age >= 80 gives 20, age <= 20 gives 80,  *)
(* never a negative value) and debt is 100 minus that.                     *)
C5_AgeHeuristicClamped ==
    (/\ op = "calculate_equity_debt_split"
     /\ args.profile.custom_equity_percentage = NoValue
     /\ args.profile.risk_profile = None) =>
        LET age == args.profile.age
            equity_pct == ret[1][1]
            debt_pct == ret[1][2]
        IN  /\ age >= 80 => equity_pct = 20 * MP
            /\ age <= 20 => equity_pct = 80 * MP
            /\ age \in 20..80 => equity_pct = (100 - age) * MP
            /\ equity_pct \in (20 * MP)..(80 * MP)
            /\ debt_pct = 100 * MP - equity_pct

\* age 100 gives equity 20, not 0
C5_Witness ==
    /\ op = "calculate_equity_debt_split"
    /\ args.profile.custom_equity_percentage = NoValue
    /\ args.profile.risk_profile = None
    /\ args.profile.age = 100
    /\ ret = <<(<<20 * MP, 80 * MP>>)>>

\* the sum of the rows' percentages, bp
SumPercentages(allocations) ==
    SumValues([k \in DOMAIN allocations |-> allocations[k].percentage])

(* C6: the percentages of the rows allocate_equity returns sum to the      *)
(* equity percentage passed in within 0.1, for every strategy, flag and    *)
(* sector allocation; the rows of allocate_debt sum to the debt percentage *)
(* within 0.1.                                                             *)
C6_RowsSumToSleeve ==
    /\ (op = "allocate_equity" /\ ret # <<>>) =>
           10 * Abs(SumPercentages(ret[1]) * (MP \div BP) - args.equity_pct) <= MP
    /\ (op = "allocate_debt" /\ ret # <<>>) =>
           10 * Abs(SumPercentages(ret[1]) * (MP \div BP) - args.debt_pct) <= MP

\* five rows (template, international, sector) whose rounded percentages do
\* not add up to the equity percentage exactly
C6_Witness ==
    /\ op = "allocate_equity"
    /\ ret # <<>>
    /\ Cardinality(DOMAIN ret[1]) = 5
    /\ SumPercentages(ret[1]) * (MP \div BP) # args.equity_pct

(* C7: with the international flag set and no sector allocation,           *)
(* allocate_equity returns an international row of equityPct * 10 / 100    *)
(* rounded to 2 decimals and template rows of share/100 * equityPct *      *)
(* 90/100 rounded to 2 decimals; with the flag unset there is no           *)
(* international row and the template rows use base 100.                   *)
C7_InternationalCarveOut ==
    (/\ op = "allocate_equity"
     /\ ret # <<>>
     /\ args.sector_allocation <= 0) =>
        LET rows == ret[1]
            template == equity_templates[args.strategy]
            base == IF args.add_international THEN 90 ELSE 100
        IN  /\ DOMAIN rows = DOMAIN template \cup
                    (IF args.add_international THEN {"international"} ELSE {})
            /\ args.add_international =>
                  IsRounded(rows["international"].percentage,
                            args.equity_pct * 10, 100 * (MP \div BP))
            /\ \A fund_type \in DOMAIN template :
                  IsRounded(rows[fund_type].percentage,
                            template[fund_type] * args.equity_pct * base,
                            100 * 100 * (MP \div BP))

\* equity 65 under balanced_growth with the flag: international 6.5 and
\* largecap 26.32 (of 26.325)
C7_Witness ==
    /\ op = "allocate_equity"
    /\ args.equity_pct = 65 * MP
    /\ args.strategy = "balanced_growth"
    /\ args.add_international
    /\ args.sector_allocation = 0
    /\ ret # <<>>
    /\ ret[1]["international"].percentage = 650
    /\ ret[1]["largecap"].percentage = 2632

(* C8: for a zero or negative total of the holding values                  *)
(* calculate_rebalance_trades raises a ValueError and returns no trades,   *)
(* while calculate_current_allocation returns an empty mapping without an  *)
(* error; for a positive total calculate_current_allocation returns, for   *)
(* every input category, value / total * 100 rounded to 2 decimals.        *)
C8_ZeroTotal ==
    /\ (op = "calculate_rebalance_trades"
            /\ SumValues(args.current_values) <= 0) =>
           /\ ret = <<>>
           /\ exc # NoExc
           /\ exc[1] = "ValueError"
    /\ op = "calculate_current_allocation" =>
           LET current_values == args.current_values
               total == SumValues(current_values)
           IN  /\ exc = NoExc
               /\ ret # <<>>
               /\ total <= 0 => DOMAIN ret[1] = {}
               /\ total > 0 =>
                     /\ DOMAIN ret[1] = DOMAIN current_values
                     /\ \A fund \in DOMAIN current_values :
                           IsRounded(ret[1][fund], current_values[fund] * 100 * BP, total)

\* holdings that cancel out: two funds, total 0, and the trades are refused
C8_Witness ==
    /\ op = "calculate_rebalance_trades"
    /\ Cardinality(DOMAIN args.current_values) = 2
    /\ SumValues(args.current_values) = 0
    /\ DOMAIN args.target_allocation_pct # {}
    /\ ret = <<>>
    /\ exc # NoExc

C12_QuickTestPlan ==
    (/\ op = "create_plan"
     /\ args.profile.age = 30
     /\ args.profile.monthly_income = 100000
     /\ args.profile.monthly_investment = 30000
     /\ args.profile.lump_sum_investment >= 0
     /\ args.profile.custom_equity_percentage = NoValue
     /\ args.profile.risk_profile = None
     /\ args.equity_strategy = None
     /\ args.debt_strategy = "long_term"
     /\ ~args.add_international
     /\ args.sector_allocation = 0) =>
        /\ exc = NoExc
        /\ ret # <<>>
        /\ ret[1].equity_percentage = 70 * BP
        /\ ret[1].debt_percentage = 30 * BP
        /\ DOMAIN ret[1].equity_allocations = {"largecap", "midcap", "smallcap"}
        /\ \A fund \in DOMAIN ret[1].equity_allocations :
              100 * ret[1].equity_allocations[fund].percentage =
                  equity_templates["aggressive_growth"][fund] * 70 * BP
        /\ SumPercentages(ret[1].equity_allocations) = 70 * BP
        /\ DOMAIN ret[1].debt_allocations = {"FD"}
        /\ ret[1].debt_allocations["FD"].percentage = 30 * BP

\* the plan of the quick test: 24.5 / 24.5 / 21 and FD 30
C12_Witness ==
    /\ op = "create_plan"
    /\ args.profile = UserProfile(30, 100000, 30000, 0, None, FALSE, FALSE, NoValue)
    /\ args.equity_strategy = None
    /\ args.debt_strategy = "long_term"
    /\ ~args.add_international
    /\ args.sector_allocation = 0
    /\ ret # <<>>
    /\ ret[1].equity_allocations["largecap"].percentage = 2450
    /\ ret[1].equity_allocations["smallcap"].percentage = 2100
    /\ ret[1].debt_allocations["FD"].percentage = 3000

\* the six warnings in their order, and the condition of each
WarnOrder == <<WarnEmergencyFund, WarnInsurance, WarnHighEquity, WarnAge, WarnLowInvestment, WarnHighRatio>>
WarnCondition(p, equity_pct, w) ==
    CASE w = WarnEmergencyFund -> ~p.has_emergency_fund /\ equity_pct > 50 * MP
      [] w = WarnInsurance -> ~p.has_adequate_insurance
      [] w = WarnHighEquity -> equity_pct > 80 * MP
      [] w = WarnAge -> p.age > 60 /\ equity_pct > 50 * MP
      [] w = WarnLowInvestment -> p.monthly_investment < 5000
      [] w = WarnHighRatio ->
            (IF p.monthly_income = 0 THEN FALSE
             ELSE p.monthly_investment * 100 > 50 * p.monthly_income)

(* C13: generate_warnings emits each of the six warnings exactly when its  *)
(* condition holds, independently of the others and in the fixed order;    *)
(* every comparison is strict (equity 50 or 80, age 60, investment 5000,   *)
(* a ratio of exactly 50 emit nothing; income 0 gives ratio 0); two        *)
(* profiles that differ only in has_emergency_fund, at equity 70, differ   *)
(* only in the presence of the emergency-fund warning.                     *)
C13_WarningsExactlyWhenDue ==
    op = "generate_warnings" =>
        LET p == args.profile
            equity_pct == args.equity_pct
            Due(w) == WarnCondition(p, equity_pct, w)
            NotEmergency(w) == w # WarnEmergencyFund
            other == generate_warnings([p EXCEPT !.has_emergency_fund = ~@], equity_pct)
        IN  /\ ret # <<>>
            /\ ret[1] = SelectSeq(WarnOrder, Due)
            /\ equity_pct = 50 * MP => {WarnEmergencyFund, WarnAge} \cap Range(ret[1]) = {}
            /\ equity_pct = 80 * MP => WarnHighEquity \notin Range(ret[1])
            /\ p.age = 60 => WarnAge \notin Range(ret[1])
            /\ p.monthly_investment = 5000 => WarnLowInvestment \notin Range(ret[1])
            /\ p.monthly_investment * 100 = 50 * p.monthly_income =>
                  WarnHighRatio \notin Range(ret[1])
            /\ p.monthly_income = 0 => WarnHighRatio \notin Range(ret[1])
            /\ equity_pct = 70 * MP =>
                  /\ SelectSeq(other, NotEmergency) = SelectSeq(ret[1], NotEmergency)
                  /\ (WarnEmergencyFund \in Range(ret[1])) = ~p.has_emergency_fund
                  /\ (WarnEmergencyFund \in Range(other)) = p.has_emergency_fund

\* every boundary at once: equity 80 with no emergency fund, age 60,
\* investment 5000 of an income of 10000, insured: the emergency-fund warning
\* alone
C13_Witness ==
    /\ op = "generate_warnings"
    /\ args.equity_pct = 80 * MP
    /\ args.profile.age = 60
    /\ args.profile.monthly_investment = 5000
    /\ args.profile.monthly_income = 10000
    /\ args.profile.has_adequate_insurance
    /\ ~args.profile.has_emergency_fund
    /\ ret = <<(<<WarnEmergencyFund>>)>>

\* the rows of a plan, equity and debt
AllRows(plan) == Merge(plan.equity_allocations, plan.debt_allocations)

(* C14: in a plan the monthly breakdown comes from the monthly investment  *)
(* alone and the lump-sum breakdown from the lump sum alone: for every     *)
(* category monthly_sip_breakdown[c] = round(percentage / 100 *            *)
(* monthly_investment, 2) and lumpsum_breakdown[c] = round(percentage /    *)
(* 100 * lump_sum_investment, 2); the second calculate_fund_amounts call   *)
(* neither changes the map the first returned nor reads the amounts the    *)
(* first wrote.                                                            *)
C14_BreakdownsFromOwnPool ==
    (op = "create_plan" /\ ret # <<>>) =>
        LET plan == ret[1]
            rows == AllRows(plan)
            profile == args.profile
        IN  /\ DOMAIN plan.monthly_sip_breakdown = DOMAIN rows
            /\ DOMAIN plan.lumpsum_breakdown = DOMAIN rows
            /\ \A c \in DOMAIN rows :
                  /\ IsRounded(plan.monthly_sip_breakdown[c],
                               rows[c].percentage * profile.monthly_investment, 100)
                  /\ IsRounded(plan.lumpsum_breakdown[c],
                               rows[c].percentage * profile.lump_sum_investment, 100)

\* 30000 a month and a lump sum of 50000 under the age rule at 30: FD at 30%
\* gets 9000 a month and 15000 of the lump sum
C14_Witness ==
    /\ op = "create_plan"
    /\ ret # <<>>
    /\ args.profile.monthly_investment = 30000
    /\ args.profile.lump_sum_investment = 50000
    /\ ret[1].debt_allocations["FD"].percentage = 30 * BP
    /\ ret[1].monthly_sip_breakdown["FD"] = 9000 * 100
    /\ ret[1].lumpsum_breakdown["FD"] = 15000 * 100

\* the band of every row is (max(0, target - threshold), min(100, target +
\* threshold)), each rounded to 2 decimals
BandsRounded ==
    /\ ret # <<>>
    /\ DOMAIN ret[1] = DOMAIN args.allocations
    /\ \A k \in DOMAIN args.allocations :
          LET target == args.allocations[k].percentage
          IN  /\ IsRounded(ret[1][k][1], Max(0, target - args.drift_threshold), MP \div BP)
              /\ IsRounded(ret[1][k][2], Min(100 * MP, target + args.drift_threshold),
                           MP \div BP)

\* 0 <= lower <= target <= upper <= 100 for the row k
BandHoldsTarget(k) ==
    LET target == args.allocations[k].percentage
        lower == ret[1][k][1] * (MP \div BP)
        upper == ret[1][k][2] * (MP \div BP)
    IN  0 <= lower /\ lower <= target /\ target <= upper /\ upper <= 100 * MP

(* C15 as stated: set_rebalancing_triggers returns for every row the band  *)
(* (max(0, target - threshold), min(100, target + threshold)) rounded to 2 *)
(* decimals, and for every threshold >= 0 and every target in [0, 100] the *)
(* band satisfies 0 <= lower <= target <= upper <= 100.                    *)
C15_BandAroundAnyTarget ==
    op = "set_rebalancing_triggers" =>
        /\ BandsRounded
        /\ args.drift_threshold >= 0 =>
              \A k \in DOMAIN args.allocations :
                  args.allocations[k].percentage \in 0..(100 * MP) => BandHoldsTarget(k)

(* C15 amended: the band is as stated for every row, and for every         *)
(* threshold >= 0 and every target in [0, 100] that has at most two        *)
(* decimals, as every row the engine makes has, the band satisfies         *)
(* 0 <= lower <= target <= upper <= 100.                                   *)
C15_BandAroundRoundedTarget ==
    /\ op = "set_rebalancing_triggers" =>
          /\ BandsRounded
          /\ args.drift_threshold >= 0 =>
                \A k \in DOMAIN args.allocations :
                    LET target == args.allocations[k].percentage
                    IN  (target \in 0..(100 * MP) /\ target % (MP \div BP) = 0)
                            => BandHoldsTarget(k)
    /\ (op = "create_plan" /\ ret # <<>> /\ args.drift_threshold >= 0) =>
          \A k \in DOMAIN ret[1].rebalancing_triggers :
              LET target == AllRows(ret[1])[k].percentage
                  band == ret[1].rebalancing_triggers[k]
              IN  0 <= band[1] /\ band[1] <= target /\ target <= band[2]
                      /\ band[2] <= 100 * BP

\* largecap at 24.5 and FD at 75.5 with a threshold of 0.005: the bounds of
\* both bands fall half-way between two hundredths, and largecap's band
\* closes on its target
C15_Witness ==
    /\ op = "set_rebalancing_triggers"
    /\ args.drift_threshold = 5
    /\ args.allocations["largecap"].percentage = 24500
    /\ "FD" \in DOMAIN args.allocations
    /\ ret # <<>>
    /\ ret[1]["largecap"] = <<2450, 2450>>

\* the nine recommendations in their order, and when each is due
RecOrder == <<RecSimplicity, RecRebalancing, RecNoMarketTiming, RecIndexFunds, RecSipDiscipline, RecGoalBased, RecTaxEfficiency, RecFundSelection, RecReviewSchedule>>
RecCondition(p, equity_pct, r) ==
    CASE r = RecIndexFunds -> equity_pct > 30 * MP
      [] r = RecSipDiscipline -> p.monthly_investment > 0
      [] r = RecTaxEfficiency -> equity_pct > 40 * MP
      [] OTHER -> TRUE

(* C16: generate_recommendations always emits the six baseline             *)
(* recommendations (simplicity, rebalancing, no market timing, goal-based, *)
(* fund selection, review schedule), the index-fund note exactly when      *)
(* equity > 30, the SIP-discipline note exactly when monthly investment >  *)
(* 0 and the tax-efficiency note exactly when equity > 40; the result has  *)
(* 6 to 9 entries in a fixed relative order and does not depend on the     *)
(* fund count.                                                             *)
C16_Recommendations ==
    op = "generate_recommendations" =>
        LET p == args.profile
            equity_pct == args.equity_pct
            Due(r) == RecCondition(p, equity_pct, r)
        IN  /\ ret # <<>>
            /\ ret[1] = SelectSeq(RecOrder, Due)
            /\ {RecSimplicity, RecRebalancing, RecNoMarketTiming, RecGoalBased,
                 RecFundSelection, RecReviewSchedule} \subseteq Range(ret[1])
            /\ Len(ret[1]) \in 6..9
            /\ equity_pct = 30 * MP => RecIndexFunds \notin Range(ret[1])
            /\ equity_pct = 40 * MP => RecTaxEfficiency \notin Range(ret[1])
            /\ p.monthly_investment = 0 => RecSipDiscipline \notin Range(ret[1])
            /\ \A num_funds \in FundCounts :
                  generate_recommendations(p, equity_pct, num_funds) = ret[1]

\* equity 40 with nothing invested monthly, for a plan of 7 funds: the six
\* baseline recommendations and the index-fund note
C16_Witness ==
    /\ op = "generate_recommendations"
    /\ args.equity_pct = 40 * MP
    /\ args.profile.monthly_investment = 0
    /\ args.num_funds = 7
    /\ ret = <<(<<RecSimplicity, RecRebalancing, RecNoMarketTiming, RecIndexFunds,
                  RecGoalBased, RecFundSelection, RecReviewSchedule>>)>>

\* the rows of a plan's equity map that come from the template
TemplateRows(plan) == DOMAIN plan.equity_allocations \ {"international", "sector"}

\* the template rows of the plan are those of the strategy: its categories,
\* each at its share of the equity percentage left to the template
RowsOfTemplate(plan, strategy, equity_pct, base_pct) ==
    /\ TemplateRows(plan) = DOMAIN equity_templates[strategy]
    /\ \A fund \in TemplateRows(plan) :
          /\ plan.equity_allocations[fund].subcategory = Title(fund)
          /\ IsRounded(plan.equity_allocations[fund].percentage,
                       equity_templates[strategy][fund] * equity_pct * base_pct,
                       100 * 100 * (MP \div BP))

(* C17: create_plan uses the equity strategy the caller supplies, whatever *)
(* the age; when none is given it uses aggressive_growth for age < 35,     *)
(* balanced_growth for 35 <= age < 50 and market_weighted for age >= 50;   *)
(* the equity rows of the plan are those of that one template.             *)
C17_StrategyResolution ==
    (op = "create_plan" /\ ret # <<>>) =>
        LET age == args.profile.age
            strategy == IF args.equity_strategy # None THEN args.equity_strategy
                        ELSE IF age < 35 THEN "aggressive_growth"
                        ELSE IF age >= 35 /\ age < 50 THEN "balanced_growth"
                        ELSE "market_weighted"
            base_pct == 100 - (IF args.add_international THEN 10 ELSE 0)
                            - Min(15, Max(0, args.sector_allocation))
        IN  \A split \in calculate_equity_debt_split(args.profile) :
                RowsOfTemplate(ret[1], strategy, split[1], base_pct)

\* a 35-year-old tagged moderate with no strategy given: balanced_growth,
\* largecap at 45% of 65
C17_Witness ==
    /\ op = "create_plan"
    /\ ret # <<>>
    /\ args.profile.age = 35
    /\ args.profile.risk_profile = "moderate"
    /\ args.profile.custom_equity_percentage = NoValue
    /\ args.equity_strategy = None
    /\ ~args.add_international
    /\ args.sector_allocation = 0
    /\ ret[1].equity_allocations["largecap"].percentage = 2925
    /\ ret[1].equity_allocations["smallcap"].percentage = 1625

(* C18: allocate_equity clamps the sector allocation to [0, 15] (above 15  *)
(* counts as 15, a negative request as 0), gives the template rows         *)
(* basePct = 100 - internationalPct - sectorPct, which lies in [75, 100],  *)
(* and adds a 'sector' row of equityPct * sectorPct / 100 rounded to 2     *)
(* decimals exactly when the clamped sector percentage is > 0.             *)
C18_SectorClamped ==
    (op = "allocate_equity" /\ ret # <<>>) =>
        LET rows == ret[1]
            requested == args.sector_allocation
            sector_pct == IF requested > 15 THEN 15
                          ELSE IF requested < 0 THEN 0
                          ELSE requested
            international_pct == IF args.add_international THEN 10 ELSE 0
            base_pct == 100 - international_pct - sector_pct
            template == equity_templates[args.strategy]
        IN  /\ base_pct \in 75..100
            /\ \A fund_type \in DOMAIN template :
                  /\ fund_type \in DOMAIN rows
                  /\ IsRounded(rows[fund_type].percentage,
                               template[fund_type] * args.equity_pct * base_pct,
                               100 * 100 * (MP \div BP))
            /\ ("sector" \in DOMAIN rows) = (sector_pct > 0)
            /\ "sector" \in DOMAIN rows =>
                  /\ rows["sector"].subcategory = "Sector/Thematic"
                  /\ IsRounded(rows["sector"].percentage, args.equity_pct * sector_pct,
                               100 * (MP \div BP))

\* a request of 20 with the international flag on equity 70 under
\* market_weighted: sector 15% of 70, and the template on the remaining 75%
C18_Witness ==
    /\ op = "allocate_equity"
    /\ args.sector_allocation = 20
    /\ args.add_international
    /\ args.equity_pct = 70 * MP
    /\ args.strategy = "market_weighted"
    /\ ret # <<>>
    /\ ret[1]["sector"].percentage = 1050
    /\ ret[1]["largecap"].percentage = 3675

(* C19: the strategy tables are well-formed: the shares of each of the     *)
(* four equity templates (index_core, market_weighted, balanced_growth,    *)
(* aggressive_growth) and of the long_term debt template sum to exactly    *)
(* 100, and every strategy the age rule returns is a key of the equity     *)
(* template table.                                                         *)
C19_TablesWellFormed ==
    /\ DOMAIN equity_templates =
          {"index_core", "market_weighted", "balanced_growth", "aggressive_growth"}
    /\ \A strategy \in DOMAIN equity_templates :
          SumValues(equity_templates[strategy]) = 100
    /\ "long_term" \in DOMAIN debt_templates
    /\ SumValues(debt_templates["long_term"]) = 100
    /\ op = "get_age_based_strategy" =>
          /\ ret # <<>>
          /\ ret[1] \in DOMAIN equity_templates
          /\ SumValues(equity_templates[ret[1]]) = 100

\* age 49 resolves balanced_growth, whose shares 45 + 30 + 25 make 100
C19_Witness ==
    /\ op = "get_age_based_strategy"
    /\ args.age = 49
    /\ ret = <<"balanced_growth">>
    /\ SumValues(equity_templates["balanced_growth"]) = 100

C22_UnknownTagRefused ==
    (/\ op = "create_plan"
     /\ args.profile.risk_profile \notin {None, "conservative", "moderate", "aggressive"}) =>
        /\ ret = <<>>
        /\ exc # NoExc

(* C23: after create_plan returns, the amount of every FundAllocation of   *)
(* the plan, and so the amount export_to_dict exports, is that category's  *)
(* lump-sum breakdown entry and not its monthly entry: the second          *)
(* calculate_fund_amounts call overwrites what the first wrote, so with a  *)
(* lump sum of 0 every exported amount is 0 even when the monthly          *)
(* breakdown is not.                                                       *)
C23_AmountIsLumpSum ==
    /\ (op = "create_plan" /\ ret # <<>>) =>
          \A c \in DOMAIN AllRows(ret[1]) :
              AllRows(ret[1])[c].amount = ret[1].lumpsum_breakdown[c]
    /\ op = "export_to_dict" =>
          LET plan == args.self
              exported == Merge(ret[1].equity_allocations, ret[1].debt_allocations)
          IN  /\ DOMAIN exported = DOMAIN plan.lumpsum_breakdown
              /\ \A c \in DOMAIN exported :
                    /\ exported[c].amount = plan.lumpsum_breakdown[c]
                    /\ plan.user_profile.lump_sum_investment = 0 => exported[c].amount = 0

\* 30000 a month and no lump sum: FD gets 9000 a month and is exported
\* with amount 0
C23_Witness ==
    /\ op = "export_to_dict"
    /\ args.self.user_profile.lump_sum_investment = 0
    /\ args.self.user_profile.monthly_investment = 30000
    /\ ret[1].monthly_sip_breakdown["FD"] = 9000 * 100
    /\ ret[1].debt_allocations["FD"].amount = 0

WithinRowRounding(total, pool, n) == 200 * Abs(total - 100 * pool) <= n * (pool + 100)

(* C25: get_allocation_summary of a plan made by create_plan reports       *)
(* total_funds = equity_funds + debt_funds, the plan's equity and debt     *)
(* percentages, monthly_sip_total = the sum of the monthly breakdown and   *)
(* lumpsum_total = the sum of the lump-sum breakdown; the two totals equal *)
(* the profile's monthly investment and lump sum up to the accumulated     *)
(* 2-decimal rounding of the rows.                                         *)
C25_AllocationSummary ==
    op = "get_allocation_summary" =>
        LET plan == args.self
            summary == ret[1]
            n == Cardinality(DOMAIN plan.monthly_sip_breakdown)
        IN  /\ summary.equity_funds = Cardinality(DOMAIN plan.equity_allocations)
            /\ summary.debt_funds = Cardinality(DOMAIN plan.debt_allocations)
            /\ summary.total_funds = summary.equity_funds + summary.debt_funds
            /\ summary.equity_percentage = plan.equity_percentage
            /\ summary.debt_percentage = plan.debt_percentage
            /\ summary.monthly_sip_total = SumValues(plan.monthly_sip_breakdown)
            /\ summary.lumpsum_total = SumValues(plan.lumpsum_breakdown)
            /\ WithinRowRounding(summary.monthly_sip_total,
                                 plan.user_profile.monthly_investment, n)
            /\ WithinRowRounding(summary.lumpsum_total,
                                 plan.user_profile.lump_sum_investment, n)

\* custom 0.015 under index_core: index at 0.01 and FD at 99.98 share out
\* 29997 of the 30000 a month and 49995 of the lump sum of 50000
C25_Witness ==
    /\ op = "get_allocation_summary"
    /\ args.self.user_profile.monthly_investment = 30000
    /\ args.self.user_profile.lump_sum_investment = 50000
    /\ ret[1].total_funds = 2
    /\ ret[1].monthly_sip_total = 29997 * 100
    /\ ret[1].lumpsum_total = 49995 * 100

(* C26: in every plan made by create_plan the key sets of the equity and   *)
(* the debt allocation maps are disjoint, and monthly_sip_breakdown,       *)
(* lumpsum_breakdown and rebalancing_triggers each have exactly the union  *)
(* of the two as their keys: merging loses and overwrites no category, and *)
(* get_total_funds_count is the number of breakdown entries.               *)
C26_KeySets ==
    (op = "create_plan" /\ ret # <<>>) =>
        LET plan == ret[1]
            keys == DOMAIN plan.equity_allocations \cup DOMAIN plan.debt_allocations
        IN  /\ DOMAIN plan.equity_allocations \cap DOMAIN plan.debt_allocations = {}
            /\ DOMAIN plan.monthly_sip_breakdown = keys
            /\ DOMAIN plan.lumpsum_breakdown = keys
            /\ DOMAIN plan.rebalancing_triggers = keys
            /\ DOMAIN get_all_allocations(plan) = keys
            /\ \A k \in DOMAIN plan.equity_allocations :
                  get_all_allocations(plan)[k] = plan.equity_allocations[k]
            /\ get_total_funds_count(plan) = Cardinality(DOMAIN plan.monthly_sip_breakdown)
            /\ get_total_funds_count(plan) = Cardinality(DOMAIN plan.lumpsum_breakdown)

\* a plan with both carve-outs: three template rows, international, sector
\* and FD, six categories in every map
C26_Witness ==
    /\ op = "create_plan"
    /\ ret # <<>>
    /\ DOMAIN ret[1].equity_allocations =
          {"largecap", "midcap", "smallcap", "international", "sector"}
    /\ DOMAIN ret[1].debt_allocations = {"FD"}
    /\ Cardinality(DOMAIN ret[1].rebalancing_triggers) = 6
    /\ get_total_funds_count(ret[1]) = 6

(* C27: for every valid profile with neither a custom equity percentage    *)
(* nor a risk-profile tag, the plan of create_plan contains neither the    *)
(* high-volatility warning (equity > 80) nor the age-60+ warning (age > 60 *)
(* and equity > 50): the age heuristic caps equity at 80 and gives at most *)
(* 39 above age 60.                                                        *)
C27_NoEquityWarningsUnderAgeRule ==
    (/\ op = "create_plan"
     /\ ret # <<>>
     /\ args.profile.custom_equity_percentage = NoValue
     /\ args.profile.risk_profile = None) =>
        /\ WarnHighEquity \notin Range(ret[1].warnings)
        /\ WarnAge \notin Range(ret[1].warnings)
        /\ ret[1].equity_percentage <= 80 * BP
        /\ args.profile.age > 60 => ret[1].equity_percentage <= 39 * BP

\* an 18-year-old gets the cap of 80 and, without an emergency fund, is
\* warned of that and of nothing about the equity share
C27_Witness ==
    /\ op = "create_plan"
    /\ ret # <<>>
    /\ args.profile.custom_equity_percentage = NoValue
    /\ args.profile.risk_profile = None
    /\ args.profile.age = 18
    /\ ret[1].equity_percentage = 80 * BP
    /\ WarnEmergencyFund \in Range(ret[1].warnings)
    /\ WarnHighEquity \notin Range(ret[1].warnings)

\* the rows whose percentage (mp) is the target of each category
RowsOfTargets(target_pct) == [fund \in DOMAIN target_pct |-> FundAllocation("Equity", fund, target_pct[fund])]

\* a flagged category's current percentage is at or outside the band that
\* set_rebalancing_triggers computes for its target with the same threshold
FlaggedOutsideBand ==
    LET target == args.target_pct
    IN  \A e \in Range(ret[1][2]) :
            \A bands \in set_rebalancing_triggers(RowsOfTargets(target), args.drift_threshold) :
                \/ e.current <= bands[e.fund][1] * (MP \div BP)
                \/ e.current >= bands[e.fund][2] * (MP \div BP)

\* current equals target for every target category: nothing is flagged
NothingFlaggedAtTarget ==
    (\A fund \in DOMAIN args.target_pct :
        Get(args.current_pct, fund) = args.target_pct[fund])
    => ret[1] = <<FALSE, <<>>>>

\* a percentage (mp) of at most two decimals
TwoDecimals(pct) == pct % (MP \div BP) = 0

StoredPlan(state) == IF "plan" \in DOMAIN state THEN <<state.plan>> ELSE <<>>

\* the profile main builds of the widgets' values
ProfileOf(values) == UserProfile(values.age, values.monthly_income, values.monthly_investment, values.lump_sum, values.risk_profile, values.emergency_fund, values.insurance, values.custom_equity)

\* the stored plan is what the latest create_plan call that succeeded
\* returned, and there is none as long as no call has succeeded
StoredIsLatestSuccess ==
    LET succeeded == {i \in 1..Len(plans) : plans[i].ret # <<>>}
    IN  IF succeeded = {} THEN StoredPlan(session_state) = <<>>
        ELSE StoredPlan(session_state) =
                <<plans[CHOOSE i \in succeeded : \A j \in succeeded : j <= i].ret[1]>>

\* a run of main on a submit: create_plan is called exactly when the profile
\* is valid, with that profile and the chosen strategy; a submit whose
\* profile is invalid or whose call raised leaves the stored plan as it was
\* and draws no plan; one that succeeded draws the plan it stored
SubmitStep ==
    (op' = "main" /\ args'.submit_button) =>
        LET profile == ProfileOf(args'.values)
            valid == validate(profile)[1]
            called == Len(plans') = Len(plans) + 1
            last == plans'[Len(plans')]
        IN  /\ called = valid
            /\ ~called => plans' = plans
            /\ called => /\ SubSeq(plans', 1, Len(plans)) = plans
                         /\ last.args = PlanCall(profile, args'.values.equity_strategy)
            /\ (~valid \/ last.ret = <<>>) =>
                  /\ StoredPlan(session_state') = StoredPlan(session_state)
                  /\ screen'.main \in {"errors", "error"}
                  /\ screen'.main # "plan"
            /\ (valid /\ last.ret # <<>>) =>
                  /\ StoredPlan(session_state') = last.ret
                  /\ screen' = Screen("plan", last.ret, TRUE)

\* a run of main without submit calls nothing, keeps the stored plan, and
\* draws it if there is one and the welcome screen if there is none
RerunStep ==
    (op' = "main" /\ ~args'.submit_button) =>
        /\ plans' = plans
        /\ StoredPlan(session_state') = StoredPlan(session_state)
        /\ IF StoredPlan(session_state) # <<>>
           THEN screen' = Screen("plan", StoredPlan(session_state), TRUE)
           ELSE screen' = Screen("welcome", <<>>, TRUE)

(* C30: over any sequence of reruns and submits of the dashboard, the plan *)
(* held in session state is always the result of the most recent submit    *)
(* whose profile was valid and whose create_plan call succeeded: a submit  *)
(* that fails validation or raises leaves the stored plan unchanged and    *)
(* renders no plan in that run, and a rerun without submit renders the     *)
(* stored plan only if one exists.                                         *)
C30_StoredPlanIsLatestSuccess ==
    /\ []StoredIsLatestSuccess
    /\ [][SubmitStep /\ RerunStep]_vars

\* a second submit, of a 61-year-old, has replaced the plan of a first one,
\* and then a submit with an income of 0 has failed validation: the page
\* shows the error and the session still holds the 61-year-old's plan
C30_Witness ==
    /\ op = "main"
    /\ args.submit_button
    /\ args.values.monthly_income = 0
    /\ Len(plans) = 2
    /\ plans[1].args.profile.age = 30
    /\ plans[2].args.profile.age = 61
    /\ plans[2].ret # <<>>
    /\ StoredPlan(session_state) = plans[2].ret
    /\ session_state.profile_data.age = 61
    /\ screen = Screen("errors", <<ErrExceeds>>, FALSE)

=============================================================================
